---- MODULE Spec2Model ----
(***************************************************************************)
(* Room coordination and recording merge of the meeting platform.          *)
(*                                                                         *)
(* The repository holds two revisions of server/server.js.  Revision 1     *)
(* schedules merges through the merge-worker (triggerMergeForRoom);        *)
(* revision 2 registers the WebRTC handlers and transfers the host role.   *)
(* The variable `build` says which revision of the server is running.      *)
(*                                                                         *)
(* Every asynchronous handler is cut at its awaits: one action is the      *)
(* synchronous code between two awaits together with the registry          *)
(* operation (findOne / save) that this code issues at its end.            *)
(***************************************************************************)
EXTENDS Integers, Sequences, FiniteSets, TLC

\* ---------------------------------------------------------------- bounds
MaxEvents == 3          \* socket events and HTTP requests accepted in all
MaxRequests == 2        \* HTTP requests accepted in one behaviour

\* Decoded chunk sizes in bytes: a fragment below every threshold, one
\* above all of them and one in between (1000 in uploadChunk and
\* getChunkFiles, 1500 in getSortedChunks, 100000 in validateChunk).
Tiny == 50
Small == 50000
Normal == 200000
NoData == -1            \* chunkData missing, "" or not a string
Keys == {0, 1}          \* chunk indexes / chunk ids sent by a client

\* ------------------------------------------------------------ value sets
Users == {"A", "B"}
Sockets == {"s1", "s2"}
Reqs == {"q1", "q2"}
Room == "r1"            \* the meeting created at start
NoRoom == "r0"          \* a roomId for which no meeting exists
RoomIds == {Room, NoRoom}
Creator == "A"          \* createMeeting's req.user.id
None == "none"

VARIABLES
    build,          \* 1 or 2: the revision of server.js that is running
    endRev,         \* 1 or 2: the definition of endMeeting that is deployed
    upRev,          \* 1 or 2: the definition of uploadChunk that is deployed
    meetings,       \* the Meeting collection: roomId -> document
    clock,          \* Date.now, advanced by every participant push
    userSocketMap,  \* io.userSocketMap: userId -> socket id
    socketUserMap,  \* io.socketUserMap: socket id -> {userId, roomId}
    connected,      \* io.sockets.sockets: the connected sockets
    inRoom,         \* the socket.io room of Room: joined socket ids
    task,           \* per socket: the handler in flight and its locals
    timers,         \* pending setTimeout callbacks: kind -> count
    merges,         \* triggerMergeForRoom calls in flight, by phase
    cleanups,       \* cleanupRoomAfterEnd calls in flight: fetched sockets
    mergeLocks,     \* server mergeController.mergeLocks
    workerLocks,    \* merge-worker mergeController.mergeLocks
    httpReq,        \* per HTTP request slot: handler state and response
    roomDir,        \* whether recordings/<Room>/ exists
    userDirs,       \* user directories under recordings/<Room>/
    disk,           \* the files in the user directories: path -> content
    finalRec,       \* recordings/<Room>/final-recording.mp4
    out,            \* the events emitted by the last step
    lastPU,         \* payload of the last participants-updated broadcast
    lastEv,         \* per user: last accepted event ("join" / "leave")
    nEvents,        \* socket events accepted so far
    nReqs,          \* HTTP requests accepted so far
    answerTimeouts, \* webrtcHandler answerTimeouts: armed timers per socket
    ended,          \* connections that have been sent meeting-ended
    endMembers,     \* connections in the room when the host's end-meeting
                    \* passed the host check (<<>> before, <<set>> after)
    mergeCalls,     \* number of triggerMergeForRoom calls so far
    lookup,         \* the last relay: sender, target user, socket found
    invalidJoins    \* join-room events received without roomId or userId

vars == <<build, endRev, upRev, disk, finalRec, meetings, clock, userSocketMap, socketUserMap,
          connected,
          inRoom, task, timers, merges, cleanups, mergeLocks, workerLocks,
          httpReq, roomDir, userDirs, out, lastPU, lastEv, nEvents, nReqs,
          answerTimeouts, ended, endMembers, mergeCalls, lookup,
          invalidJoins>>

\* ------------------------------------------------------- Meeting model
\* A document as returned by Meeting.findOne; exists = FALSE is null.
NoDoc == [exists |-> FALSE, host |-> None, participants |-> <<>>,
          isActive |-> FALSE, v |-> 0]

FindOne(r) == IF r \in DOMAIN meetings THEN meetings[r] ELSE NoDoc

\* participantSchema: user, role, joinedAt (default Date.now)
Participant(u, role, t) == [user |-> u, role |-> role, joinedAt |-> t]

RECURSIVE FilterOut(_, _)
FilterOut(ps, u) ==
    IF ps = <<>> THEN <<>>
    ELSE IF Head(ps).user = u THEN FilterOut(Tail(ps), u)
         ELSE <<Head(ps)>> \o FilterOut(Tail(ps), u)

HasUser(ps, u) == \E i \in 1..Len(ps) : ps[i].user = u

UserList(ps) == [i \in 1..Len(ps) |-> ps[i].user]

\* meeting.participants.push(p); meeting.save(): mongoose sends $push and
\* increments the version key without testing it.
SavePush(db, p) ==
    [db EXCEPT !.participants = Append(@, p), !.v = @ + 1]

\* meeting.participants = ps (and optionally isActive = act); save():
\* an array that differs from the loaded one is sent as $set guarded by
\* the version key; a stale version makes save() throw VersionError.
SaveWouldThrow(db, snap, ps) ==
    ps # snap.participants /\ db.v # snap.v

SaveSet(db, snap, ps, act) ==
    IF ps # snap.participants
    THEN [db EXCEPT !.participants = ps, !.isActive = act, !.v = @ + 1]
    ELSE [db EXCEPT !.isActive = act]

\* ------------------------------------------------------------ emissions
Ev(s, e, a) == [to |-> s, ev |-> e, arg |-> a]

\* io.in(room).emit(e): every connected socket that joined the room
EmitRoom(members, e, a) == {Ev(s, e, a) : s \in members \cap connected}

\* socket.emit(e)
EmitSelf(s, e) == IF s \in connected THEN {Ev(s, e, "-")} ELSE {}

\* socket.emit("join-error", { message })
JoinError(s, msg) == IF s \in connected THEN {Ev(s, "join-error", msg)} ELSE {}

\* ---------------------------------------------------------------- tasks
Idle == [pc |-> "idle", room |-> None, user |-> None, doc |-> NoDoc,
         list |-> <<>>, flag |-> FALSE, fetched |-> {}, hostLeave |-> None,
         xfer |-> None]

Start(pc, r, u, d) == [pc |-> pc, room |-> r, user |-> u, doc |-> d,
                       list |-> <<>>, flag |-> FALSE, fetched |-> {},
                       hostLeave |-> None, xfer |-> None]

\* For a leave-room of the host: whether other participants are listed
\* when the event arrives ("others" / "alone"); None for any other event.
HostLeave(d, u) ==
    IF ~d.exists \/ d.host # u \/ ~HasUser(d.participants, u) THEN None
    ELSE IF \E i \in 1..Len(d.participants) : d.participants[i].user # u
         THEN "others" ELSE "alone"

\* File names in a user directory: chunk_<index>.webm (saveChunk),
\* <timestamp>-<index>.webm (uploadChunk, second definition; the client
\* builds its chunkId in the same form).
NoName == [kind |-> None, ts |-> 0, key |-> 0]
ChunkName(i) == [kind |-> "chunk", ts |-> 0, key |-> i]
StampName(t, i) == [kind |-> "stamp", ts |-> t, key |-> i]

\* recordings/<Room>/<user>/<name>.webm, or that path + ".tmp"
Path(u, n, tmp) == [user |-> u, name |-> n, tmp |-> tmp]
NoPath == Path(None, NoName, FALSE)

\* Content of a file: the upload that wrote it, whether all of its bytes
\* are there ("partial": opened and truncated, "mixed": bytes of two
\* uploads), its size and modification time.
Content(id, st, sz, t) == [by |-> id, state |-> st, size |-> sz, mtime |-> t]

\* The byte range of a download: whether the request had a Range header,
\* and the start, end and Content-Length the handler computed.
ByteRange(g, a, b, n) == [given |-> g, start |-> a, end |-> b, length |-> n]
NoRange == ByteRange(FALSE, 0, 0, 0)

HttpIdle == [pc |-> "idle", kind |-> None, user |-> None, doc |-> NoDoc,
             code |-> 0, busy |-> FALSE, id |-> 0, kk |-> None,
             path |-> NoPath, size |-> 0, fd |-> None, lists |-> <<>>,
             range |-> NoRange]

\* No relay has been handled yet.
NoLookup == [n |-> 0, from |-> None, kind |-> None, user |-> None,
             sock |-> None]

NoFiles == [p \in {} |-> Content(0, "full", 0, 0)]

\* The disk after chunk k of the creator has been uploaded.
InitialChunk(k) ==
    LET n == IF upRev = 1 THEN ChunkName(k) ELSE StampName(0, k)
    IN [p \in {Path(Creator, n, FALSE)} |-> Content(0, "full", Normal, 0)]

AllIdle ==
    /\ \A s \in Sockets : task[s].pc = "idle"
    /\ \A q \in Reqs : httpReq[q].pc = "idle"

Init ==
    /\ build \in {1, 2}
    /\ endRev \in {1, 2}
    /\ upRev \in {1, 2}
    /\ meetings = [r \in {Room} |->
                     [exists |-> TRUE, host |-> Creator,
                      participants |-> <<>>, isActive |-> TRUE, v |-> 0]]
    /\ clock = 1
    /\ userSocketMap = [u \in Users |-> None]
    /\ socketUserMap = [s \in Sockets |-> [userId |-> None, roomId |-> None]]
    /\ connected = Sockets
    /\ inRoom = {}
    /\ task = [s \in Sockets |-> Idle]
    /\ timers = [k \in {"stop", "end"} |-> 0]
    /\ merges = [p \in {"requested", "running", "detached", "ok", "failed"}
                    |-> 0]
    /\ cleanups = <<>>
    /\ mergeLocks = {}
    /\ workerLocks = {}
    /\ httpReq = [q \in Reqs |-> HttpIdle]
    /\ userDirs \in {{}, {Creator}}
    /\ roomDir = (userDirs # {})
    /\ disk \in IF userDirs = {} THEN {NoFiles}
                 ELSE {InitialChunk(k) : k \in Keys}
    /\ finalRec = "absent"
    /\ out = {}
    /\ lastPU = <<None>>
    /\ lastEv = [u \in Users |-> None]
    /\ nEvents = 0
    /\ nReqs = 0
    /\ answerTimeouts = {}
    /\ ended = {}
    /\ endMembers = <<>>
    /\ mergeCalls = 0
    /\ lookup = NoLookup
    /\ invalidJoins = 0

\* Variable groups left alone by the socket handlers.
revVars == <<build, endRev, upRev>>
relayVars == <<answerTimeouts, lookup>>
endVars == <<ended, endMembers>>
auxVars == <<relayVars, endVars, mergeCalls, invalidJoins>>
httpVars == <<mergeLocks, workerLocks, httpReq, nReqs>>
fileVars == <<disk, finalRec>>
diskVars == <<roomDir, userDirs, fileVars>>
mergeVars == <<timers, merges, cleanups, httpVars, diskVars>>
presenceVars == <<userSocketMap, socketUserMap, connected, inRoom>>

CanAccept(s) ==
    /\ s \in connected
    /\ task[s].pc = "idle"
    /\ nEvents + nReqs < MaxEvents

\* ============================================================ join-room
\* join-room without roomId or without userId: join-error at once.
JoinRoomInvalid(s) ==
    /\ CanAccept(s)
    /\ out' = JoinError(s, "required")
    /\ nEvents' = nEvents + 1
    /\ invalidJoins' = invalidJoins + 1
    /\ UNCHANGED <<revVars, relayVars, endVars, mergeCalls, meetings, clock,
                   presenceVars, task, mergeVars, lastPU, lastEv>>

\* The checks on the findOne result: `!meeting`, then `!meeting.isActive`.
JoinRefusedUnknownOnly(d) == ~d.exists

JoinRefused(d) == ~d.exists \/ ~d.isActive

\* join-room, up to `await Meeting.findOne({ roomId })` (both revisions).
JoinRoom(s, r, u) ==
    /\ CanAccept(s)
    /\ task' = [task EXCEPT ![s] = Start("join_found", r, u, FindOne(r))]
    /\ lastEv' = IF FindOne(r).exists /\ FindOne(r).isActive
                 THEN [lastEv EXCEPT ![u] = "join"] ELSE lastEv
    /\ nEvents' = nEvents + 1
    /\ out' = {}
    /\ UNCHANGED <<revVars, auxVars, meetings, clock, presenceVars, mergeVars, lastPU>>

\* Revision 1: from the findOne result to `await meeting.save()` or, for a
\* user already listed, to the first `await getParticipantsList(roomId)`.
JoinFound1(s) ==
    LET t == task[s]
        role == IF t.doc.host = t.user THEN "host" ELSE "participant"
        already == HasUser(t.doc.participants, t.user)
    IN
    /\ build = 1
    /\ t.pc = "join_found"
    /\ IF JoinRefused(t.doc)
       THEN /\ out' = JoinError(s, IF ~t.doc.exists THEN "not found"
                                   ELSE "ended")
            /\ task' = [task EXCEPT ![s] = Idle]
            /\ UNCHANGED <<meetings, clock, userSocketMap, socketUserMap,
                           inRoom>>
       ELSE /\ userSocketMap' = [userSocketMap EXCEPT ![t.user] = s]
            /\ socketUserMap' = [socketUserMap EXCEPT
                                   ![s] = [userId |-> t.user, roomId |-> t.room]]
            /\ inRoom' = inRoom \cup {s}
            /\ IF already
               THEN /\ out' = EmitRoom(inRoom \ {s}, "user-connected", t.user)
                    /\ task' = [task EXCEPT ![s].pc = "join_list1",
                                  ![s].list = UserList(FindOne(t.room).participants)]
                    /\ UNCHANGED <<meetings, clock>>
               ELSE /\ meetings' = [meetings EXCEPT ![t.room] =
                                      SavePush(@, Participant(t.user, role, clock))]
                    /\ clock' = clock + 1
                    /\ task' = [task EXCEPT ![s].pc = "join_saved"]
                    /\ out' = {}
    /\ UNCHANGED <<revVars, auxVars, connected, mergeVars, lastPU, lastEv, nEvents>>

\* After save: user-connected to the others, then getParticipantsList.
JoinSaved1(s) ==
    LET t == task[s] IN
    /\ build = 1
    /\ t.pc = "join_saved"
    /\ out' = EmitRoom(inRoom \ {s}, "user-connected", t.user)
    /\ task' = [task EXCEPT ![s].pc = "join_list1",
                  ![s].list = UserList(FindOne(t.room).participants)]
    /\ UNCHANGED <<revVars, auxVars, meetings, clock, presenceVars, mergeVars, lastPU,
                   lastEv, nEvents>>

\* participants-updated with the list read, then the second read.
JoinList1(s) ==
    LET t == task[s] IN
    /\ build = 1
    /\ t.pc = "join_list1"
    /\ out' = EmitRoom(inRoom, "participants-updated", "-")
    /\ lastPU' = t.list
    /\ task' = [task EXCEPT ![s].pc = "join_list2", ![s].list = <<>>]
    /\ UNCHANGED <<revVars, auxVars, meetings, clock, presenceVars, mergeVars, lastEv,
                   nEvents>>

\* joined-success to the caller.
JoinList2(s) ==
    /\ build = 1
    /\ task[s].pc = "join_list2"
    /\ out' = EmitSelf(s, "joined-success")
    /\ task' = [task EXCEPT ![s] = Idle]
    /\ UNCHANGED <<revVars, auxVars, meetings, clock, presenceVars, mergeVars, lastPU,
                   lastEv, nEvents>>

\* =========================================================== leave-room
\* Revision 1: leave-room up to `await Meeting.findOne`: both presence
\* indexes are deleted and the socket leaves the room before the read.
LeaveRoom1(s, r, u) ==
    /\ build = 1
    /\ CanAccept(s)
    /\ userSocketMap' = [userSocketMap EXCEPT ![u] = None]
    /\ socketUserMap' = [socketUserMap EXCEPT
                           ![s] = [userId |-> None, roomId |-> None]]
    /\ inRoom' = IF r = Room THEN inRoom \ {s} ELSE inRoom
    /\ task' = [task EXCEPT ![s] =
                  [Start("leave_found", r, u, FindOne(r))
                     EXCEPT !.hostLeave = HostLeave(FindOne(r), u)]]
    /\ lastEv' = IF FindOne(r).exists
                 THEN [lastEv EXCEPT ![u] = "leave"] ELSE lastEv
    /\ nEvents' = nEvents + 1
    /\ out' = {}
    /\ UNCHANGED <<revVars, auxVars, meetings, clock, connected, mergeVars, lastPU>>

\* From the findOne result to `await meeting.save()`; without a meeting
\* the handler finishes at once.  A VersionError is caught and logged.
LeaveFound1(s) ==
    LET t == task[s]
        ps == FilterOut(t.doc.participants, t.user)
    IN
    /\ build = 1
    /\ t.pc = "leave_found"
    /\ IF ~t.doc.exists
       THEN /\ out' = EmitRoom(inRoom \ {s}, "user-disconnected", t.user)
                        \cup EmitSelf(s, "left-success")
            /\ task' = [task EXCEPT ![s] = Idle]
            /\ UNCHANGED meetings
       ELSE IF SaveWouldThrow(meetings[t.room], t.doc, ps)
       THEN /\ out' = {}
            /\ task' = [task EXCEPT ![s] = Idle]
            /\ UNCHANGED meetings
       ELSE /\ meetings' = [meetings EXCEPT ![t.room] =
                              SaveSet(@, t.doc, ps, t.doc.isActive)]
            /\ task' = [task EXCEPT ![s].pc = "leave_saved"]
            /\ out' = {}
    /\ UNCHANGED <<revVars, auxVars, clock, presenceVars, mergeVars, lastPU, lastEv,
                   nEvents>>

\* After save: `await getParticipantsList(roomId)`.
LeaveSaved1(s) ==
    LET t == task[s] IN
    /\ build = 1
    /\ t.pc = "leave_saved"
    /\ task' = [task EXCEPT ![s].pc = "leave_list",
                  ![s].list = UserList(FindOne(t.room).participants)]
    /\ out' = {}
    /\ UNCHANGED <<revVars, auxVars, meetings, clock, presenceVars, mergeVars, lastPU,
                   lastEv, nEvents>>

\* participants-updated, user-disconnected, left-success.
LeaveList1(s) ==
    LET t == task[s] IN
    /\ build = 1
    /\ t.pc = "leave_list"
    /\ out' = EmitRoom(inRoom, "participants-updated", "-")
                \cup EmitRoom(inRoom \ {s}, "user-disconnected", t.user)
                \cup EmitSelf(s, "left-success")
    /\ lastPU' = t.list
    /\ task' = [task EXCEPT ![s] = Idle]
    /\ UNCHANGED <<revVars, auxVars, meetings, clock, presenceVars, mergeVars, lastEv,
                   nEvents>>

\* =========================================================== disconnect
\* Revision 1: the transport closes socket s.  socket.io removes the
\* socket from its rooms, then the handler deletes the presence entries
\* of the registered user and reads the meeting.
Disconnect1(s) ==
    LET m == socketUserMap[s] IN
    /\ build = 1
    /\ s \in connected
    /\ task[s].pc = "idle"
    /\ connected' = connected \ {s}
    /\ inRoom' = inRoom \ {s}
    /\ out' = {}
    /\ IF m.userId = None
       THEN UNCHANGED <<userSocketMap, socketUserMap, task, lastEv>>
       ELSE /\ socketUserMap' = [socketUserMap EXCEPT
                                   ![s] = [userId |-> None, roomId |-> None]]
            /\ userSocketMap' = [userSocketMap EXCEPT ![m.userId] = None]
            /\ task' = [task EXCEPT ![s] =
                          [Start("disc_found", m.roomId, m.userId,
                                 FindOne(m.roomId))
                             EXCEPT !.flag = FindOne(m.roomId).host = m.userId]]
            /\ lastEv' = [lastEv EXCEPT ![m.userId] = "leave"]
    /\ UNCHANGED <<revVars, auxVars, meetings, clock, mergeVars, lastPU, nEvents>>

\* From the findOne result to `await meeting.save()`.  The handler has no
\* try/catch: a VersionError ends it.
DiscFound1(s) ==
    LET t == task[s]
        ps == FilterOut(t.doc.participants, t.user)
    IN
    /\ build = 1
    /\ t.pc = "disc_found"
    /\ IF ~t.doc.exists \/ SaveWouldThrow(meetings[t.room], t.doc, ps)
       THEN /\ task' = [task EXCEPT ![s] = Idle]
            /\ UNCHANGED meetings
       ELSE /\ meetings' = [meetings EXCEPT ![t.room] =
                              SaveSet(@, t.doc, ps, t.doc.isActive)]
            /\ task' = [task EXCEPT ![s].pc = "disc_saved"]
    /\ out' = {}
    /\ UNCHANGED <<revVars, auxVars, clock, presenceVars, mergeVars, lastPU, lastEv,
                   nEvents>>

DiscSaved1(s) ==
    LET t == task[s] IN
    /\ build = 1
    /\ t.pc = "disc_saved"
    /\ task' = [task EXCEPT ![s].pc = "disc_list",
                  ![s].list = UserList(FindOne(t.room).participants)]
    /\ out' = {}
    /\ UNCHANGED <<revVars, auxVars, meetings, clock, presenceVars, mergeVars, lastPU,
                   lastEv, nEvents>>

DiscList1(s) ==
    LET t == task[s] IN
    /\ build = 1
    /\ t.pc = "disc_list"
    /\ out' = EmitRoom(inRoom, "participants-updated", "-")
    /\ lastPU' = t.list
    /\ task' = [task EXCEPT ![s] = Idle]
    /\ UNCHANGED <<revVars, auxVars, meetings, clock, presenceVars, mergeVars, lastEv,
                   nEvents>>

\* The host check of the recording and end-meeting handlers:
\* `!meeting` returns, then meeting.host.toString() !== String(hostId).
IsHostAnyone(d, h) == d.exists

IsHost(d, h) == d.exists /\ d.host = h

\* ====================================================== start-recording
\* Revision 1: start-recording up to `await Meeting.findOne`.
StartRecording1(s, r, h) ==
    /\ build = 1
    /\ CanAccept(s)
    /\ task' = [task EXCEPT ![s] = Start("start_found", r, h, FindOne(r))]
    /\ nEvents' = nEvents + 1
    /\ out' = {}
    /\ UNCHANGED <<revVars, auxVars, meetings, clock, presenceVars, mergeVars, lastPU,
                   lastEv>>

\* Host check on the document read, then the room-wide notification.
StartFound1(s) ==
    LET t == task[s] IN
    /\ build = 1
    /\ t.pc = "start_found"
    /\ out' = IF ~IsHost(t.doc, t.user)
              THEN EmitSelf(s, "error")
              ELSE EmitRoom(inRoom, "recording-started", "-")
    /\ task' = [task EXCEPT ![s] = Idle]
    /\ UNCHANGED <<revVars, auxVars, meetings, clock, presenceVars, mergeVars, lastPU,
                   lastEv, nEvents>>

\* ======================================================= stop-recording
StopRecording1(s, r, h) ==
    /\ build = 1
    /\ CanAccept(s)
    /\ task' = [task EXCEPT ![s] = Start("stop_found", r, h, FindOne(r))]
    /\ nEvents' = nEvents + 1
    /\ out' = {}
    /\ UNCHANGED <<revVars, auxVars, meetings, clock, presenceVars, mergeVars, lastPU,
                   lastEv>>

\* Host check, recording-stopped to the room, and
\* setTimeout(() => triggerMergeForRoom(roomId), POST_STOP_UPLOAD_GRACE_MS).
StopFound1(s) ==
    LET t == task[s] IN
    /\ build = 1
    /\ t.pc = "stop_found"
    /\ IF ~IsHost(t.doc, t.user)
       THEN /\ out' = {}
            /\ UNCHANGED timers
       ELSE /\ out' = EmitRoom(inRoom, "recording-stopped", "-")
            /\ timers' = [timers EXCEPT !["stop"] = @ + 1]
    /\ task' = [task EXCEPT ![s] = Idle]
    /\ UNCHANGED <<revVars, auxVars, meetings, clock, presenceVars, merges, cleanups,
                   httpVars, diskVars, lastPU,
                   lastEv, nEvents>>

\* ========================================================== end-meeting
EndMeeting1(s, r, h) ==
    /\ build = 1
    /\ CanAccept(s)
    /\ task' = [task EXCEPT ![s] = Start("end_found", r, h, FindOne(r))]
    /\ nEvents' = nEvents + 1
    /\ out' = {}
    /\ UNCHANGED <<revVars, auxVars, meetings, clock, presenceVars, mergeVars, lastPU,
                   lastEv>>

\* Host check; meeting-ended is emitted before the document is saved with
\* isActive = false and participants = [].  A VersionError is swallowed
\* by the empty catch and no timer is set.
EndFound1(s) ==
    LET t == task[s]
        members == inRoom \cap connected
    IN
    /\ build = 1
    /\ t.pc = "end_found"
    /\ IF ~IsHost(t.doc, t.user)
       THEN /\ out' = {}
            /\ task' = [task EXCEPT ![s] = Idle]
            /\ UNCHANGED <<meetings, endVars>>
       ELSE /\ out' = EmitRoom(inRoom, "meeting-ended", "-")
            /\ ended' = ended \cup members
            /\ endMembers' = IF endMembers = <<>> THEN <<members>>
                             ELSE <<endMembers[1] \cup members>>
            /\ IF SaveWouldThrow(meetings[t.room], t.doc, <<>>)
               THEN /\ task' = [task EXCEPT ![s] = Idle]
                    /\ UNCHANGED meetings
               ELSE /\ meetings' = [meetings EXCEPT ![t.room] =
                                      SaveSet(@, t.doc, <<>>, FALSE)]
                    /\ task' = [task EXCEPT ![s].pc = "end_saved"]
    /\ UNCHANGED <<revVars, relayVars, mergeCalls, invalidJoins, clock, presenceVars,
                   mergeVars, lastPU, lastEv, nEvents>>

\* After save: setTimeout(..., POST_STOP_UPLOAD_GRACE_MS).
EndSaved1(s) ==
    /\ build = 1
    /\ task[s].pc = "end_saved"
    /\ timers' = [timers EXCEPT !["end"] = @ + 1]
    /\ task' = [task EXCEPT ![s] = Idle]
    /\ out' = {}
    /\ UNCHANGED <<revVars, auxVars, meetings, clock, presenceVars, merges, cleanups,
                   httpVars, diskVars, lastPU,
                   lastEv, nEvents>>

\* ===================================================== chunk listing
\* The chunk files a reader of a user directory sees: the names that end
\* in ".webm".
Chunks(u) == {p \in DOMAIN disk : p.user = u /\ ~p.tmp}

\* The orders Array.prototype.sort can leave the files of S in under a
\* comparator that subtracts key(a) - key(b): equal keys keep the order
\* readdirSync returned, which is any order.
Sorted(S, key) ==
    {f \in [1..Cardinality(S) -> S] :
        \A i, j \in 1..Cardinality(S) :
            i < j => f[i] # f[j] /\ key[f[i]] <= key[f[j]]}

\* getChunkFiles: `a.match(/chunk_(\d+)/)`, else 0
ChunkIndex(p) == IF p.name.kind = "chunk" THEN p.name.key ELSE 0

\* getSortedChunks: Number of the name up to the first "." or "-"; when
\* that is NaN the files are compared by mtimeMs.
NumericPrefix(p) ==
    IF p.name.kind = "stamp" THEN p.name.ts ELSE disk[p].mtime

\* server validateChunk: size of at least 100000 bytes (a failing
\* ffprobe is accepted).
validateChunk(p) == disk[p].size >= 100000

\* merge-worker validateChunk: ffprobe finds a stream in a file that
\* holds one whole payload.
probeChunk(p) == disk[p].state = "full"

\* getChunkFiles(userDir) of the server: the lists it can return.
getChunkFiles(u) ==
    LET Keep(p) == disk[p].size >= 1000 /\ validateChunk(p)
    IN {SelectSeq(f, Keep) :
          f \in Sorted(Chunks(u), [p \in Chunks(u) |-> ChunkIndex(p)])}

\* getSortedChunks(userDir) of the merge-worker.
getSortedChunks(u) ==
    LET Keep(p) == disk[p].size >= 1500 /\ probeChunk(p)
    IN {SelectSeq(f, Keep) :
          f \in Sorted(Chunks(u), [p \in Chunks(u) |-> NumericPrefix(p)])}

\* ================================================= timers and the merge
\* triggerMergeForRoom up to `await requestMerge(roomId)`: merge-started
\* is emitted and the POST /merge request leaves for the merge-worker.
triggerMergeForRoom ==
    /\ out' = EmitRoom(inRoom, "merge-started", "-")
    /\ merges' = [merges EXCEPT !["requested"] = @ + 1]
    /\ mergeCalls' = mergeCalls + 1

\* The stop-recording timer fires.
StopTimer ==
    /\ timers["stop"] > 0
    /\ timers' = [timers EXCEPT !["stop"] = @ - 1]
    /\ triggerMergeForRoom
    /\ UNCHANGED <<revVars, relayVars, endVars, invalidJoins, meetings, clock,
                   presenceVars,
                   task, cleanups, httpVars, diskVars, lastPU, lastEv, nEvents>>

\* The end-meeting timer fires: triggerMergeForRoom is started without
\* await, then cleanupRoomAfterEnd runs up to `await fetchSockets()`.
EndTimer ==
    /\ timers["end"] > 0
    /\ timers' = [timers EXCEPT !["end"] = @ - 1]
    /\ triggerMergeForRoom
    /\ cleanups' = Append(cleanups, inRoom \cap connected)
    /\ UNCHANGED <<revVars, relayVars, endVars, invalidJoins, meetings, clock,
                   presenceVars,
                   task, httpVars, diskVars, lastPU, lastEv, nEvents>>

RemoveAt(q, i) == [j \in 1..(Len(q) - 1) |-> IF j < i THEN q[j] ELSE q[j + 1]]

\* cleanupRoomAfterEnd after fetchSockets: every fetched client loses its
\* presence entries and leaves the room.
cleanupRoomAfterEnd(i) ==
    LET cs == cleanups[i] IN
    /\ userSocketMap' = [u \in Users |->
                           IF \E c \in cs : socketUserMap[c].userId = u
                           THEN None ELSE userSocketMap[u]]
    /\ socketUserMap' = [c \in Sockets |->
                           IF c \in cs THEN [userId |-> None, roomId |-> None]
                           ELSE socketUserMap[c]]
    /\ inRoom' = inRoom \ cs
    /\ cleanups' = RemoveAt(cleanups, i)
    /\ out' = {}
    /\ UNCHANGED <<revVars, auxVars, meetings, clock, connected, task, timers, merges,
                   httpVars, diskVars, lastPU,
                   lastEv, nEvents>>

\* merge-worker POST /merge: processMeeting(roomId) starts with no lock;
\* it throws at once when the room has no user directory.
WorkerMergeStart ==
    /\ merges["requested"] > 0
    /\ merges' = IF userDirs = {}
                 THEN [merges EXCEPT !["requested"] = @ - 1, !["failed"] = @ + 1]
                 ELSE [merges EXCEPT !["requested"] = @ - 1, !["running"] = @ + 1]
    /\ out' = {}
    /\ UNCHANGED <<revVars, auxVars, meetings, clock, presenceVars, task, timers,
                   cleanups, httpVars, diskVars,
                   lastPU, lastEv, nEvents>>

\* processMeeting returns the final path, which it does only when every
\* user directory gave a valid chunk, or throws (no valid chunk, ffmpeg
\* error) before or while final-recording.mp4 is written.
WorkerMergeEnd(ok) ==
    /\ merges["running"] > 0
    /\ ok => /\ userDirs # {}
             /\ \A u \in userDirs : getSortedChunks(u) # {<<>>}
    /\ merges' = IF ok
                 THEN [merges EXCEPT !["running"] = @ - 1, !["ok"] = @ + 1]
                 ELSE [merges EXCEPT !["running"] = @ - 1, !["failed"] = @ + 1]
    /\ finalRec' \in IF ok THEN {"complete"} ELSE {finalRec, "partial"}
    /\ out' = {}
    /\ UNCHANGED <<revVars, auxVars, meetings, clock, presenceVars, task, timers,
                   cleanups, httpVars, roomDir, userDirs, disk,
                   lastPU, lastEv, nEvents>>

\* requestMerge gives up: the axios timeout of 120000 ms or a connection
\* error rejects the call.  A run that has started goes on in the
\* merge-worker with nobody waiting for it.
RequestTimeout(ph) ==
    /\ ph \in {"requested", "running"}
    /\ merges[ph] > 0
    /\ merges' = IF ph = "running"
                 THEN [merges EXCEPT !["running"] = @ - 1,
                                     !["detached"] = @ + 1,
                                     !["failed"] = @ + 1]
                 ELSE [merges EXCEPT !["requested"] = @ - 1,
                                     !["failed"] = @ + 1]
    /\ out' = {}
    /\ UNCHANGED <<revVars, auxVars, meetings, clock, presenceVars, task, timers,
                   cleanups, httpVars, diskVars,
                   lastPU, lastEv, nEvents>>

\* processMeeting ends in a run whose caller has given up.
DetachedMergeEnd(ok) ==
    /\ merges["detached"] > 0
    /\ ok => /\ userDirs # {}
             /\ \A u \in userDirs : getSortedChunks(u) # {<<>>}
    /\ merges' = [merges EXCEPT !["detached"] = @ - 1]
    /\ finalRec' \in IF ok THEN {"complete"} ELSE {finalRec, "partial"}
    /\ out' = {}
    /\ UNCHANGED <<revVars, auxVars, meetings, clock, presenceVars, task, timers,
                   cleanups, httpVars, roomDir, userDirs, disk,
                   lastPU, lastEv, nEvents>>

\* The event triggerMergeForRoom emits after requestMerge: from the try
\* block or from the catch block.
OutcomeAlwaysSuccess(ok) == "merge-success"

OutcomeEvent(ok) == IF ok THEN "merge-success" ELSE "merge-failed"

\* triggerMergeForRoom after requestMerge: merge-success or merge-failed.
MergeOutcome(ok) ==
    LET ph == IF ok THEN "ok" ELSE "failed" IN
    /\ merges[ph] > 0
    /\ merges' = [merges EXCEPT ![ph] = @ - 1]
    /\ out' = EmitRoom(inRoom, OutcomeEvent(ok), "-")
    /\ UNCHANGED <<revVars, auxVars, meetings, clock, presenceVars, task, timers,
                   cleanups, httpVars, diskVars,
                   lastPU, lastEv, nEvents>>

\* ================================================ revision 2: join-room
NoEntry == [userId |-> None, roomId |-> None]

\* cleanupStaleSocket(io, userId): the socket registered for the user
\* loses its socketUserMap entry and is force-disconnected.  Its
\* disconnecting / disconnect handlers then find no mapping and return.
StaleSocket(u) == IF userSocketMap[u] = None THEN {} ELSE {userSocketMap[u]}

\* Revision 2: from the findOne result to the findOne of
\* addParticipantToMeeting.
JoinFound2(s) ==
    LET t == task[s]
        old == StaleSocket(t.user)
    IN
    /\ build = 2
    /\ t.pc = "join_found"
    /\ IF JoinRefused(t.doc)
       THEN /\ out' = JoinError(s, IF ~t.doc.exists THEN "not found"
                                   ELSE "ended")
            /\ task' = [task EXCEPT ![s] = Idle]
            /\ UNCHANGED presenceVars
       ELSE /\ connected' = connected \ old
            /\ socketUserMap' = [c \in Sockets |->
                                   IF c = s THEN [userId |-> t.user, roomId |-> t.room]
                                   ELSE IF c \in old THEN NoEntry
                                   ELSE socketUserMap[c]]
            /\ userSocketMap' = [userSocketMap EXCEPT ![t.user] = s]
            /\ inRoom' = (inRoom \ (old \cap connected)) \cup {s}
            /\ task' = [task EXCEPT ![s].pc = "join2_apm",
                                    ![s].doc = FindOne(t.room)]
            /\ out' = {}
    /\ UNCHANGED <<revVars, auxVars, meetings, clock, mergeVars, lastPU, lastEv, nEvents>>

\* addParticipantToMeeting after its findOne: duplicate check on the
\* document read, push and `await meeting.save()`.
addParticipantToMeeting(s) ==
    LET t == task[s]
        role == IF t.doc.host = t.user THEN "host" ELSE "participant"
    IN
    /\ build = 2
    /\ t.pc = "join2_apm"
    /\ IF ~t.doc.exists
       THEN /\ out' = JoinError(s, "failed")
            /\ task' = [task EXCEPT ![s] = Idle]
            /\ UNCHANGED <<meetings, clock>>
       ELSE IF HasUser(t.doc.participants, t.user)
       THEN /\ out' = EmitRoom(inRoom \ {s}, "user-connected", t.user)
            /\ task' = [task EXCEPT ![s].pc = "join2_list",
                          ![s].list = UserList(FindOne(t.room).participants)]
            /\ UNCHANGED <<meetings, clock>>
       ELSE /\ meetings' = [meetings EXCEPT ![t.room] =
                              SavePush(@, Participant(t.user, role, clock))]
            /\ clock' = clock + 1
            /\ task' = [task EXCEPT ![s].pc = "join2_saved"]
            /\ out' = {}
    /\ UNCHANGED <<revVars, auxVars, presenceVars, mergeVars, lastPU, lastEv, nEvents>>

\* After addParticipantToMeeting: user-connected, fetchParticipantsForRoom.
JoinSaved2(s) ==
    LET t == task[s] IN
    /\ build = 2
    /\ t.pc = "join2_saved"
    /\ out' = EmitRoom(inRoom \ {s}, "user-connected", t.user)
    /\ task' = [task EXCEPT ![s].pc = "join2_list",
                  ![s].list = UserList(FindOne(t.room).participants)]
    /\ UNCHANGED <<revVars, auxVars, meetings, clock, presenceVars, mergeVars, lastPU,
                   lastEv, nEvents>>

\* participants-updated to the room and joined-success to the caller.
JoinList2b(s) ==
    LET t == task[s] IN
    /\ build = 2
    /\ t.pc = "join2_list"
    /\ out' = EmitRoom(inRoom, "participants-updated", "-")
                \cup EmitSelf(s, "joined-success")
    /\ lastPU' = t.list
    /\ task' = [task EXCEPT ![s] = Idle]
    /\ UNCHANGED <<revVars, auxVars, meetings, clock, presenceVars, mergeVars, lastEv,
                   nEvents>>

\* =============================================== revision 2: leave-room
\* leave-room up to its first `await Meeting.findOne`.
LeaveRoom2(s, r, u) ==
    /\ build = 2
    /\ CanAccept(s)
    /\ task' = [task EXCEPT ![s] =
                  [Start("leave2_found", r, u, FindOne(r))
                     EXCEPT !.hostLeave = HostLeave(FindOne(r), u)]]
    /\ lastEv' = IF FindOne(r).exists
                 THEN [lastEv EXCEPT ![u] = "leave"] ELSE lastEv
    /\ nEvents' = nEvents + 1
    /\ out' = {}
    /\ UNCHANGED <<revVars, auxVars, meetings, clock, presenceVars, mergeVars, lastPU>>

\* isHost and the transfer condition are taken from the first document;
\* removeParticipantFromMeeting then reads the meeting again.
LeaveFound2(s) ==
    LET t == task[s] IN
    /\ build = 2
    /\ t.pc = "leave2_found"
    /\ task' = [task EXCEPT
                  ![s].pc = "leave2_rm",
                  ![s].flag = /\ t.doc.exists
                              /\ t.doc.host = t.user
                              /\ Len(t.doc.participants) > 1,
                  ![s].doc = FindOne(t.room)]
    /\ out' = {}
    /\ UNCHANGED <<revVars, auxVars, meetings, clock, presenceVars, mergeVars, lastPU,
                   lastEv, nEvents>>

\* removeParticipantFromMeeting after its findOne, called by leave-room
\* and by the disconnecting handler.  A VersionError propagates to the
\* catch of the caller, which only logs it.
removeParticipantFromMeeting(s) ==
    LET t == task[s]
        ps == FilterOut(t.doc.participants, t.user)
        next == IF t.pc = "leave2_rm" THEN "leave2_removed" ELSE "disc2_removed"
    IN
    /\ build = 2
    /\ t.pc \in {"leave2_rm", "disc2_rm"}
    /\ IF ~t.doc.exists
       THEN /\ task' = [task EXCEPT ![s].pc = next]
            /\ UNCHANGED meetings
       ELSE IF SaveWouldThrow(meetings[t.room], t.doc, ps)
       THEN /\ task' = [task EXCEPT ![s] = Idle]
            /\ UNCHANGED meetings
       ELSE /\ meetings' = [meetings EXCEPT ![t.room] =
                              SaveSet(@, t.doc, ps, t.doc.isActive)]
            /\ task' = [task EXCEPT ![s].pc = next]
    /\ out' = {}
    /\ UNCHANGED <<revVars, auxVars, clock, presenceVars, mergeVars, lastPU,
                   lastEv, nEvents>>

\* After the removal: the socket leaves the room and both presence
\* entries are deleted; then transferHostRole's findOne, or the list read.
LeaveRemoved2(s) ==
    LET t == task[s] IN
    /\ build = 2
    /\ t.pc = "leave2_removed"
    /\ inRoom' = IF t.room = Room THEN inRoom \ {s} ELSE inRoom
    /\ socketUserMap' = [socketUserMap EXCEPT ![s] = NoEntry]
    /\ userSocketMap' = [userSocketMap EXCEPT ![t.user] = None]
    /\ IF t.flag
       THEN /\ task' = [task EXCEPT ![s].pc = "leave2_xfer",
                                    ![s].doc = FindOne(t.room)]
            /\ out' = {}
       ELSE /\ task' = [task EXCEPT ![s].pc = "leave2_list",
                          ![s].list = UserList(FindOne(t.room).participants)]
            /\ out' = EmitRoom(inRoom' \ {s}, "user-disconnected", t.user)
    /\ UNCHANGED <<revVars, auxVars, meetings, clock, connected, mergeVars, lastPU,
                   lastEv, nEvents>>

\* Index of the first participant that is not the host, 0 if none:
\* meeting.participants.find(p => p.user !== meeting.host).
FirstNonHost(doc) ==
    LET idx == {i \in 1..Len(doc.participants) :
                  doc.participants[i].user # doc.host}
    IN IF idx = {} THEN 0 ELSE CHOOSE i \in idx : \A j \in idx : i <= j

\* save() of transferHostRole: host is $set; a changed role is a $set on
\* participants.<i>.role, guarded by the version key.
TransferThrows(db, snap, i) ==
    snap.participants[i].role # "host" /\ db.v # snap.v

SaveTransfer(db, snap, i) ==
    IF snap.participants[i].role # "host"
    THEN [db EXCEPT !.host = snap.participants[i].user,
                    !.participants[i].role = "host"]
    ELSE [db EXCEPT !.host = snap.participants[i].user]

\* transferHostRole after its findOne.  Every error is caught inside and
\* yields null: no host-transferred is emitted then.
transferHostRole(s) ==
    LET t == task[s]
        i == FirstNonHost(t.doc)
        moved == /\ t.doc.exists
                 /\ i # 0
                 /\ ~TransferThrows(meetings[t.room], t.doc, i)
    IN
    /\ build = 2
    /\ t.pc = "leave2_xfer"
    /\ IF moved
       THEN /\ meetings' = [meetings EXCEPT ![t.room] =
                              SaveTransfer(@, t.doc, i)]
            /\ task' = [task EXCEPT ![s].pc = "leave2_xfer_saved"]
            /\ out' = {}
       ELSE /\ task' = [task EXCEPT ![s].pc = "leave2_list",
                          ![s].list = UserList(FindOne(t.room).participants)]
            /\ out' = EmitRoom(inRoom \ {s}, "user-disconnected", t.user)
            /\ UNCHANGED meetings
    /\ UNCHANGED <<revVars, auxVars, clock, presenceVars, mergeVars, lastPU, lastEv,
                   nEvents>>

\* host-transferred with the new host id, user-disconnected, list read.
LeaveXferSaved2(s) ==
    LET t == task[s]
        i == FirstNonHost(t.doc)
    IN
    /\ build = 2
    /\ t.pc = "leave2_xfer_saved"
    /\ out' = EmitRoom(inRoom, "host-transferred", t.doc.participants[i].user)
                \cup EmitRoom(inRoom \ {s}, "user-disconnected", t.user)
    /\ task' = [task EXCEPT ![s].pc = "leave2_list",
                  ![s].xfer = t.doc.participants[i].user,
                  ![s].list = UserList(FindOne(t.room).participants)]
    /\ UNCHANGED <<revVars, auxVars, meetings, clock, presenceVars, mergeVars, lastPU,
                   lastEv, nEvents>>

\* participants-updated and left-success.
LeaveList2(s) ==
    LET t == task[s] IN
    /\ build = 2
    /\ t.pc = "leave2_list"
    /\ out' = EmitRoom(inRoom, "participants-updated", "-")
                \cup EmitSelf(s, "left-success")
    /\ lastPU' = t.list
    /\ task' = [task EXCEPT ![s] = Idle]
    /\ UNCHANGED <<revVars, auxVars, meetings, clock, presenceVars, mergeVars, lastEv,
                   nEvents>>

\* ============================= revision 2: disconnecting / disconnect
\* The transport closes socket s.  socket.io emits "disconnecting", whose
\* handler runs up to `await Meeting.findOne`, removes the socket from its
\* rooms and emits "disconnect", whose handler deletes the presence
\* entries of the registered user.
Disconnect2(s) ==
    LET m == socketUserMap[s] IN
    /\ build = 2
    /\ s \in connected
    /\ task[s].pc = "idle"
    /\ connected' = connected \ {s}
    /\ inRoom' = inRoom \ {s}
    /\ out' = {}
    /\ IF m.userId = None
       THEN UNCHANGED <<userSocketMap, socketUserMap, task, lastEv>>
       ELSE /\ socketUserMap' = [socketUserMap EXCEPT ![s] = NoEntry]
            /\ userSocketMap' = [userSocketMap EXCEPT ![m.userId] = None]
            /\ task' = [task EXCEPT ![s] =
                          [Start("disc2_found", m.roomId, m.userId,
                                 FindOne(m.roomId))
                             EXCEPT !.flag = FindOne(m.roomId).host = m.userId]]
            /\ lastEv' = [lastEv EXCEPT ![m.userId] = "leave"]
    /\ UNCHANGED <<revVars, auxVars, meetings, clock, mergeVars, lastPU,
                   nEvents>>

\* disconnecting after findOne: the host's disconnect saves isActive =
\* false and participants = []; any other user goes on to
\* removeParticipantFromMeeting.  Errors are caught and logged.
DiscFound2(s) ==
    LET t == task[s] IN
    /\ build = 2
    /\ t.pc = "disc2_found"
    /\ IF ~t.doc.exists
       THEN /\ task' = [task EXCEPT ![s] = Idle]
            /\ UNCHANGED meetings
       ELSE IF t.doc.host # t.user
       THEN /\ task' = [task EXCEPT ![s].pc = "disc2_rm",
                                    ![s].doc = FindOne(t.room)]
            /\ UNCHANGED meetings
       ELSE IF SaveWouldThrow(meetings[t.room], t.doc, <<>>)
       THEN /\ task' = [task EXCEPT ![s] = Idle]
            /\ UNCHANGED meetings
       ELSE /\ meetings' = [meetings EXCEPT ![t.room] =
                              SaveSet(@, t.doc, <<>>, FALSE)]
            /\ task' = [task EXCEPT ![s].pc = "disc2_ended"]
    /\ out' = {}
    /\ UNCHANGED <<revVars, auxVars, clock, presenceVars, mergeVars, lastPU,
                   lastEv, nEvents>>

\* Host path after save: meeting-ended to the others in the room, then
\* `await io.in(roomId).fetchSockets()`.
DiscEnded2(s) ==
    LET t == task[s]
        others == (inRoom \ {s}) \cap connected
    IN
    /\ build = 2
    /\ t.pc = "disc2_ended"
    /\ out' = EmitRoom(inRoom \ {s}, "meeting-ended", "-")
    /\ ended' = ended \cup others
    /\ task' = [task EXCEPT ![s].pc = "disc2_fetch",
                            ![s].fetched = inRoom \cap connected]
    /\ UNCHANGED <<revVars, relayVars, endMembers, mergeCalls, invalidJoins,
                   meetings, clock,
                   presenceVars, mergeVars, lastPU, lastEv, nEvents>>

\* Host path after fetchSockets: the presence entries of every fetched
\* client are deleted (the clients stay in the socket.io room), then
\* those of the disconnecting socket and of its user.
DiscCleanup2(s) ==
    LET t == task[s]
        cs == t.fetched
    IN
    /\ build = 2
    /\ t.pc = "disc2_fetch"
    /\ userSocketMap' = [u \in Users |->
                           IF u = t.user \/ \E c \in cs : socketUserMap[c].userId = u
                           THEN None ELSE userSocketMap[u]]
    /\ socketUserMap' = [c \in Sockets |->
                           IF c \in cs \cup {s} THEN NoEntry
                           ELSE socketUserMap[c]]
    /\ task' = [task EXCEPT ![s] = Idle]
    /\ out' = {}
    /\ UNCHANGED <<revVars, auxVars, meetings, clock, connected, inRoom,
                   mergeVars, lastPU, lastEv, nEvents>>

\* Participant path after the removal: user-disconnected to the others,
\* then fetchParticipantsForRoom.
DiscRemoved2(s) ==
    LET t == task[s] IN
    /\ build = 2
    /\ t.pc = "disc2_removed"
    /\ out' = EmitRoom(inRoom \ {s}, "user-disconnected", t.user)
    /\ task' = [task EXCEPT ![s].pc = "disc2_list",
                  ![s].list = UserList(FindOne(t.room).participants)]
    /\ UNCHANGED <<revVars, auxVars, meetings, clock, presenceVars, mergeVars,
                   lastPU, lastEv, nEvents>>

\* participants-updated; the presence entries of the socket and of the
\* user are deleted once more.
DiscList2(s) ==
    LET t == task[s] IN
    /\ build = 2
    /\ t.pc = "disc2_list"
    /\ out' = EmitRoom(inRoom, "participants-updated", "-")
    /\ lastPU' = t.list
    /\ socketUserMap' = [socketUserMap EXCEPT ![s] = NoEntry]
    /\ userSocketMap' = [userSocketMap EXCEPT ![t.user] = None]
    /\ task' = [task EXCEPT ![s] = Idle]
    /\ UNCHANGED <<revVars, auxVars, meetings, clock, connected, inRoom,
                   mergeVars, lastEv, nEvents>>

\* ======================================================== HTTP requests
CanRequest(q) ==
    /\ httpReq[q].pc = "idle"
    /\ nReqs < MaxRequests
    /\ nEvents + nReqs < MaxEvents

Respond(kind, code) == [HttpIdle EXCEPT !.kind = kind, !.code = code]

\* Requests of one kind whose pipeline run is executing.
Merging(kind) ==
    {q \in Reqs : /\ httpReq[q].pc \in {"merging", "finalizing"}
                  /\ httpReq[q].kind = kind}

\* ------------------------------------------------------------ uploads
MinChunkSize == 1000    \* `buffer.length < 1000` in uploadChunk
Sizes == {NoData, 0, Tiny, Small, Normal}
KeyKinds == {"index", "id", None}   \* chunkIndex, chunkId, neither
Stamps == 0..MaxEvents  \* the timestamps in the names of chunk files

\* Request bodies of upload-chunk: the well-formed ones of full size,
\* and one body for each way of being refused or too small.
Body(r, u, kk, k, sz) ==
    [roomId |-> r, userId |-> u, kk |-> kk, key |-> k, size |-> sz]
GoodBodies ==
    {Body(Room, u, kk, k, Normal) : u \in Users, kk \in {"index", "id"},
                                    k \in Keys}
IndexBodies == {b \in GoodBodies : b.kk = "index"}
\* The creator's chunks of every size that holds data.
SizedBodies ==
    {Body(Room, Creator, "index", k, sz) : k \in Keys,
                                          sz \in {Tiny, Small, Normal}}
Bodies ==
    GoodBodies \cup
    {Body(None, Creator, "index", 0, Normal),
     Body(Room, None, "index", 0, Normal),
     Body(Room, Creator, None, 0, Normal)} \cup
    {Body(Room, Creator, "index", 0, sz) : sz \in Sizes}

Put(d, p, c) == [x \in DOMAIN d \cup {p} |-> IF x = p THEN c ELSE d[x]]
Remove(d, P) == [x \in DOMAIN d \ P |-> d[x]]

\* The request record of an upload: who sent it, how its key was sent,
\* the decoded size and the order of arrival.
UploadFields(u, kk, sz) ==
    [HttpIdle EXCEPT !.kind = "upload", !.user = u, !.kk = kk, !.size = sz,
                     !.id = nReqs + 1]

\* First definition of uploadChunk (recordingController.js), from the
\* request to the writeFile that saveChunk issues.  The key is
\* chunkIndex; chunkId is not read.  saveChunk creates the directories
\* (getUserRecordingDir) after the validation has passed.
uploadChunk(q, r, u, kk, k, sz) ==
    LET req == UploadFields(u, kk, sz) IN
    /\ upRev = 1
    /\ CanRequest(q)
    /\ nReqs' = nReqs + 1
    /\ out' = {}
    /\ IF \/ r = None \/ u = None \/ kk # "index"
          \/ sz \in {NoData, 0}
          \/ sz < MinChunkSize
       THEN /\ httpReq' = [httpReq EXCEPT ![q] = [req EXCEPT !.code = 400]]
            /\ UNCHANGED diskVars
       ELSE /\ roomDir' = TRUE
            /\ userDirs' = userDirs \cup {u}
            /\ httpReq' = [httpReq EXCEPT ![q] =
                             [req EXCEPT !.pc = "up_open",
                                         !.path = Path(u, ChunkName(k), FALSE)]]
            /\ UNCHANGED fileVars
    /\ UNCHANGED <<revVars, auxVars, meetings, clock, presenceVars, task,
                   timers, merges, cleanups, mergeLocks, workerLocks, lastPU,
                   lastEv, nEvents>>

\* Second definition of uploadChunk (userController.js), from the
\* request to the writeFile that saveChunkToDisk issues.
\* ensureMeetingUserDirs runs before the payload is decoded; an empty
\* buffer is the only size that is refused.  The file is named after
\* chunkId when one is sent (`<timestamp>-<index>` in the client), else
\* `${Date.now()}-${chunkIndex}`; t is that timestamp.
uploadChunkAtomic(q, r, u, kk, k, t, sz) ==
    LET req == UploadFields(u, kk, sz) IN
    /\ upRev = 2
    /\ CanRequest(q)
    /\ nReqs' = nReqs + 1
    /\ out' = {}
    /\ IF r = None \/ u = None \/ kk = None \/ sz = NoData
       THEN /\ t = clock
            /\ httpReq' = [httpReq EXCEPT ![q] = [req EXCEPT !.code = 400]]
            /\ UNCHANGED <<diskVars, clock>>
       ELSE /\ roomDir' = TRUE
            /\ userDirs' = userDirs \cup {u}
            /\ UNCHANGED fileVars
            /\ IF sz = 0
               THEN /\ t = clock
                    /\ httpReq' = [httpReq EXCEPT ![q] =
                                     [req EXCEPT !.code = 400]]
                    /\ UNCHANGED clock
               ELSE /\ IF kk = "index"
                       THEN t \in {clock, clock + 1} /\ clock' = t
                       ELSE UNCHANGED clock
                    /\ httpReq' = [httpReq EXCEPT ![q] =
                                     [req EXCEPT
                                        !.pc = "up_open",
                                        !.path = Path(u, StampName(t, k), FALSE)]]
    /\ UNCHANGED <<revVars, auxVars, meetings, presenceVars, task, timers,
                   merges, cleanups, mergeLocks, workerLocks, lastPU, lastEv,
                   nEvents>>

\* The path writeFile is given: the chunk's own path in saveChunk,
\* filePath + ".tmp" in saveChunkToDisk.
WritePath(t) == IF upRev = 1 THEN t.path ELSE [t.path EXCEPT !.tmp = TRUE]

\* The modification time a write leaves: later than that of every file
\* written before.
Max(S) == CHOOSE x \in S : \A y \in S : y <= x
Now == 1 + Max({0} \cup {disk[p].mtime : p \in DOMAIN disk})

\* writeFile opens its path with O_CREAT | O_TRUNC: the file is there
\* and empty.  ENOENT when the user directory has been removed.
UpOpen(q) ==
    LET t == httpReq[q] IN
    /\ t.pc = "up_open"
    /\ IF t.path.user \notin userDirs
       THEN /\ httpReq' = [httpReq EXCEPT ![q].pc = "idle", ![q].code = 500]
            /\ UNCHANGED disk
       ELSE /\ disk' = Put(disk, WritePath(t),
                           Content(t.id, "partial", 0, Now))
            /\ httpReq' = [httpReq EXCEPT
                             ![q].pc = "up_data",
                             ![q].fd = IF upRev = 1 THEN "final" ELSE "tmp"]
    /\ out' = {}
    /\ UNCHANGED <<revVars, auxVars, meetings, clock, presenceVars, task,
                   timers, merges, cleanups, mergeLocks, workerLocks, nReqs,
                   roomDir, userDirs, finalRec, lastPU, lastEv, nEvents>>

\* The file after the bytes of upload t went into it from offset 0: a
\* longer content another upload left there keeps its tail.
Written(c, t) ==
    IF c.by # t.id /\ c.size > t.size
    THEN Content(t.id, "mixed", c.size, Now)
    ELSE Content(t.id, "full", t.size, Now)

\* Where the file that upload t has open is now.
OpenFile(t) ==
    IF t.fd = "tmp" THEN {[t.path EXCEPT !.tmp = TRUE]}
    ELSE IF t.fd = "final" THEN {t.path}
    ELSE {}

\* writeFile writes the buffer and closes.  saveChunk and the first
\* uploadChunk then stat the chunk's path and answer; saveChunkToDisk
\* goes on to rename.
UpWrite(q) ==
    LET t == httpReq[q] IN
    /\ t.pc = "up_data"
    /\ disk' = [p \in DOMAIN disk |->
                  IF p \in OpenFile(t) THEN Written(disk[p], t) ELSE disk[p]]
    /\ IF upRev = 2
       THEN httpReq' = [httpReq EXCEPT ![q].pc = "up_rename", ![q].fd = None]
       ELSE httpReq' = [httpReq EXCEPT
               ![q].pc = "idle",
               ![q].fd = None,
               ![q].code = IF t.path \notin DOMAIN disk' THEN 500
                           ELSE IF disk'[t.path].size # t.size THEN 500
                           ELSE 200]
    /\ out' = {}
    /\ UNCHANGED <<revVars, auxVars, meetings, clock, presenceVars, task,
                   timers, merges, cleanups, mergeLocks, workerLocks, nReqs,
                   roomDir, userDirs, finalRec, lastPU, lastEv, nEvents>>

\* fs.rename(tmpPath, filePath) in saveChunkToDisk, then the statSync
\* and the answer of uploadChunk.  The file moves with every descriptor
\* that is open on it; the file that was at filePath is unlinked.
UpRename(q) ==
    LET t == httpReq[q]
        tmp == [t.path EXCEPT !.tmp = TRUE]
    IN
    /\ t.pc = "up_rename"
    /\ IF tmp \notin DOMAIN disk
       THEN /\ httpReq' = [httpReq EXCEPT ![q].pc = "idle", ![q].code = 500]
            /\ UNCHANGED disk
       ELSE /\ disk' = Put(Remove(disk, {tmp}), t.path, disk[tmp])
            /\ httpReq' = [x \in Reqs |->
                 IF x = q THEN [t EXCEPT !.pc = "idle", !.code = 200]
                 ELSE IF httpReq[x].path # t.path THEN httpReq[x]
                 ELSE IF httpReq[x].fd = "tmp"
                      THEN [httpReq[x] EXCEPT !.fd = "final"]
                 ELSE IF httpReq[x].fd = "final"
                      THEN [httpReq[x] EXCEPT !.fd = "orphan"]
                 ELSE httpReq[x]]
    /\ out' = {}
    /\ UNCHANGED <<revVars, auxVars, meetings, clock, presenceVars, task,
                   timers, merges, cleanups, mergeLocks, workerLocks, nReqs,
                   roomDir, userDirs, finalRec, lastPU, lastEv, nEvents>>

\* mergeLocks.has(roomId)
LockHeldNever(locks, r) == FALSE

LockHeld(locks, r) == r \in locks

\* mergeLocks.delete(roomId)
ReleaseNever(locks, r) == locks

Release(locks, r) == locks \ {r}

\* ------------------------------------------------- the merge pipeline
\* The chunk lists one run hands to concatenation, one for each user
\* directory the run found when it started.
ChunkLists(kind, users) ==
    LET Lists(u) == IF kind = "merge" THEN getChunkFiles(u)
                    ELSE getSortedChunks(u)
    IN {l \in [users -> UNION {Lists(u) : u \in users}] :
           \A u \in users : l[u] \in Lists(u)}

\* The user directories the run has to read.
RunStart(kind, code) ==
    [Respond(kind, code) EXCEPT !.lists = [u \in userDirs |-> <<>>]]

\* server mergeMeetingRecording, from the request to
\* `await processMeetingRecording(roomId)`.  getMeetingDir creates the
\* room directory, so the existsSync test that follows always passes.
\* processMeetingRecording throws before its first await when the room
\* has no user directory: the lock is released and 500 is returned.
mergeMeetingRecording(q) ==
    /\ CanRequest(q)
    /\ nReqs' = nReqs + 1
    /\ out' = {}
    /\ IF LockHeld(mergeLocks, Room)
       THEN /\ httpReq' = [httpReq EXCEPT ![q] =
                             [Respond("merge", 409) EXCEPT
                                !.busy = Merging("merge") # {}]]
            /\ UNCHANGED <<mergeLocks, roomDir>>
       ELSE /\ roomDir' = TRUE
            /\ IF userDirs = {}
               THEN /\ httpReq' = [httpReq EXCEPT ![q] =
                                     [Respond("merge", 500) EXCEPT
                                        !.busy = Merging("merge") # {}]]
                    /\ UNCHANGED mergeLocks
               ELSE /\ mergeLocks' = mergeLocks \cup {Room}
                    /\ httpReq' = [httpReq EXCEPT ![q] =
                                     [RunStart("merge", 0) EXCEPT
                                        !.pc = "merging",
                                        !.busy = Merging("merge") # {}]]
    /\ UNCHANGED <<revVars, auxVars, meetings, clock, presenceVars, task, timers, merges,
                   cleanups, workerLocks, userDirs, fileVars, lastPU, lastEv,
                   nEvents>>

\* concatenateUserChunks (server) and concatUserChunks (merge-worker)
\* for every user directory of the run: the chunks are listed and
\* concatenated, and the writing of final-recording.mp4 begins
\* (mergeUserVideos, mergeUsersFinal).  A user without a valid chunk, or
\* an ffmpeg error, rejects: the controller's catch releases the lock
\* and answers 500.
Concat(q, ok) ==
    LET t == httpReq[q] IN
    /\ t.pc = "merging"
    /\ \E l \in ChunkLists(t.kind, DOMAIN t.lists) :
         IF ok /\ \A u \in DOMAIN l : l[u] # <<>>
         THEN /\ httpReq' = [httpReq EXCEPT ![q].pc = "finalizing",
                                            ![q].lists = l]
              /\ finalRec' = "partial"
              /\ UNCHANGED <<mergeLocks, workerLocks>>
         ELSE /\ httpReq' = [httpReq EXCEPT ![q].pc = "idle",
                                            ![q].code = 500]
              /\ mergeLocks' = IF t.kind = "merge"
                               THEN Release(mergeLocks, Room) ELSE mergeLocks
              /\ workerLocks' = IF t.kind = "wmerge"
                                THEN Release(workerLocks, Room) ELSE workerLocks
              /\ UNCHANGED finalRec
    /\ out' = {}
    /\ UNCHANGED <<revVars, auxVars, meetings, clock, presenceVars, task,
                   timers, merges, cleanups, nReqs, roomDir, userDirs, disk,
                   lastPU, lastEv, nEvents>>

\* Step 3 of processMeetingRecording, reached only when the merge has
\* succeeded: every user directory of the run is removed with its files.
CleanedAlways(ok, users) == Remove(disk, {p \in DOMAIN disk : p.user \in users})

Cleaned(ok, users) ==
    IF ok THEN Remove(disk, {p \in DOMAIN disk : p.user \in users}) ELSE disk

\* processMeetingRecording resolved or rejected while it wrote the
\* final file: the lock is released and 200 or 500 is returned.  An
\* upload that has a file open in a removed directory keeps writing
\* into the unlinked file.
MergeEnd(q, ok) ==
    LET t == httpReq[q]
        users == DOMAIN t.lists
    IN
    /\ t.pc = "finalizing"
    /\ t.kind = "merge"
    /\ mergeLocks' = Release(mergeLocks, Room)
    /\ finalRec' = IF ok THEN "complete" ELSE "partial"
    /\ disk' = Cleaned(ok, users)
    /\ userDirs' = IF ok THEN userDirs \ users ELSE userDirs
    /\ httpReq' = [x \in Reqs |->
         IF x = q THEN [t EXCEPT !.pc = "idle",
                                 !.code = IF ok THEN 200 ELSE 500]
         ELSE IF ok /\ httpReq[x].path.user \in users
                 /\ httpReq[x].fd \in {"tmp", "final"}
              THEN [httpReq[x] EXCEPT !.fd = "orphan"]
         ELSE httpReq[x]]
    /\ out' = {}
    /\ UNCHANGED <<revVars, auxVars, meetings, clock, presenceVars, task, timers, merges,
                   cleanups, workerLocks, nReqs, roomDir, lastPU, lastEv,
                   nEvents>>

\* merge-worker fileHelper.getUserList(roomId): the user directories.
getUserList == userDirs

\* merge-worker mergeRecording, from the request to
\* `await processMeeting(roomId)`.
mergeRecording(q) ==
    /\ CanRequest(q)
    /\ nReqs' = nReqs + 1
    /\ out' = {}
    /\ IF ~roomDir
       THEN /\ httpReq' = [httpReq EXCEPT ![q] = Respond("wmerge", 404)]
            /\ UNCHANGED workerLocks
       ELSE IF getUserList = {}
       THEN /\ httpReq' = [httpReq EXCEPT ![q] = Respond("wmerge", 400)]
            /\ UNCHANGED workerLocks
       ELSE IF LockHeld(workerLocks, Room)
       THEN /\ httpReq' = [httpReq EXCEPT ![q] =
                             [Respond("wmerge", 409) EXCEPT
                                !.busy = Merging("wmerge") # {}]]
            /\ UNCHANGED workerLocks
       ELSE /\ workerLocks' = workerLocks \cup {Room}
            /\ httpReq' = [httpReq EXCEPT ![q] =
                             [RunStart("wmerge", 0) EXCEPT
                                !.pc = "merging",
                                !.busy = Merging("wmerge") # {}]]
    /\ UNCHANGED <<revVars, auxVars, meetings, clock, presenceVars, task, timers, merges,
                   cleanups, mergeLocks, diskVars, lastPU, lastEv, nEvents>>

\* processMeeting resolved or rejected in mergeRecording while it wrote
\* the final file; its cleanup is commented out.
WorkerMergeRecordingEnd(q, ok) ==
    /\ httpReq[q].pc = "finalizing"
    /\ httpReq[q].kind = "wmerge"
    /\ workerLocks' = Release(workerLocks, Room)
    /\ finalRec' = IF ok THEN "complete" ELSE "partial"
    /\ httpReq' = [httpReq EXCEPT ![q].pc = "idle",
                                  ![q].code = IF ok THEN 200 ELSE 500]
    /\ out' = {}
    /\ UNCHANGED <<revVars, auxVars, meetings, clock, presenceVars, task, timers, merges,
                   cleanups, mergeLocks, nReqs, roomDir, userDirs, disk,
                   lastPU, lastEv, nEvents>>

\* downloadMeetingRecording without a Range header: getMeetingDir
\* creates the room directory; 404 unless final-recording.mp4 exists,
\* else the file is streamed as it is (fd: what the stream read).
downloadMeetingRecording(q) ==
    /\ CanRequest(q)
    /\ nReqs' = nReqs + 1
    /\ out' = {}
    /\ roomDir' = TRUE
    /\ httpReq' = [httpReq EXCEPT ![q] =
                     IF finalRec = "absent" THEN Respond("download", 404)
                     ELSE [Respond("download", 200) EXCEPT !.fd = finalRec]]
    /\ UNCHANGED <<revVars, auxVars, meetings, clock, presenceVars, task,
                   timers, merges, cleanups, mergeLocks, workerLocks, userDirs,
                   fileVars, lastPU, lastEv, nEvents>>

\* ---------------------------------------------------- byte ranges
\* Sizes of final-recording.mp4 in bytes: the finished file and one that
\* a merge has begun or failed to write.
CompleteBytes == 4
PartialBytes == 2
fileSize == IF finalRec = "complete" THEN CompleteBytes ELSE PartialBytes

\* The two parts of `range.replace(/bytes=/, '').split('-')`: a
\* decimal number, the empty string or something that is no number.
Empty == -1
Junk == -2
MaxPos == CompleteBytes + 1
RangeParts == {Empty, Junk} \cup 0..MaxPos
RangeHeaders == [first : RangeParts, last : RangeParts]

\* parseInt(part, 10): NaN for the empty string and for a part that does
\* not begin with a digit.
NaN == -1
parseInt(part) == IF part >= 0 THEN part ELSE NaN

\* `parts[1] ? parseInt(parts[1], 10) : fileSize - 1`: only the empty
\* string is falsy.
RangeEnd(h) == IF h.last = Empty THEN fileSize - 1 ELSE parseInt(h.last)

\* `start >= fileSize`, false when start is NaN.
NotSatisfiable(start) == start # NaN /\ start >= fileSize

\* fs.createReadStream(path, { start, end }) throws for a start or end
\* that is no integer and for start > end; an end past the end of the
\* file is accepted.
StreamThrows(start, end) == start = NaN \/ end = NaN \/ start > end

\* downloadMeetingRecording with a Range header: 404 without the final
\* file; 416 when start >= fileSize; else the read stream is created
\* (the catch answers 500 when that throws) and 206 is written with
\* Content-Range start-end/fileSize and Content-Length end - start + 1.
downloadRange(q, h) ==
    LET start == parseInt(h.first)
        end == RangeEnd(h)
        Answer(code, a, b, n) ==
            [Respond("download", code) EXCEPT
               !.size = fileSize, !.range = ByteRange(TRUE, a, b, n)]
    IN
    /\ CanRequest(q)
    /\ nReqs' = nReqs + 1
    /\ out' = {}
    /\ roomDir' = TRUE
    /\ httpReq' = [httpReq EXCEPT ![q] =
         IF finalRec = "absent"
         THEN [Respond("download", 404) EXCEPT
                 !.range = ByteRange(TRUE, 0, 0, 0)]
         ELSE IF NotSatisfiable(start) THEN Answer(416, start, end, 0)
         ELSE IF StreamThrows(start, end) THEN Answer(500, start, end, 0)
         ELSE [Answer(206, start, end, end - start + 1) EXCEPT
                 !.fd = finalRec]]
    /\ UNCHANGED <<revVars, auxVars, meetings, clock, presenceVars, task,
                   timers, merges, cleanups, mergeLocks, workerLocks, userDirs,
                   fileVars, lastPU, lastEv, nEvents>>

\* POST /meetings/end/:roomId, up to `await Meeting.findOne({ roomId })`;
\* caller is req.user.id.
endMeeting(q, caller) ==
    /\ CanRequest(q)
    /\ nReqs' = nReqs + 1
    /\ httpReq' = [httpReq EXCEPT ![q] =
                     [HttpIdle EXCEPT !.pc = "hend_found", !.kind = "end",
                                      !.user = caller, !.doc = FindOne(Room)]]
    /\ out' = {}
    /\ UNCHANGED <<revVars, auxVars, meetings, clock, presenceVars, task, timers, merges,
                   cleanups, mergeLocks, workerLocks, diskVars, lastPU, lastEv,
                   nEvents>>

\* First definition of endMeeting: 403 unless the caller is the host;
\* isActive = false, participants = [], save.
EndMeetingFound1(q) ==
    LET t == httpReq[q] IN
    /\ endRev = 1
    /\ t.pc = "hend_found"
    /\ IF ~t.doc.exists
       THEN /\ httpReq' = [httpReq EXCEPT ![q] = Respond("end", 404)]
            /\ UNCHANGED meetings
       ELSE IF t.doc.host # t.user
       THEN /\ httpReq' = [httpReq EXCEPT ![q] = Respond("end", 403)]
            /\ UNCHANGED meetings
       ELSE IF SaveWouldThrow(meetings[Room], t.doc, <<>>)
       THEN /\ httpReq' = [httpReq EXCEPT ![q] = Respond("end", 500)]
            /\ UNCHANGED meetings
       ELSE /\ meetings' = [meetings EXCEPT ![Room] =
                              SaveSet(@, t.doc, <<>>, FALSE)]
            /\ httpReq' = [httpReq EXCEPT ![q] = Respond("end", 200)]
    /\ out' = {}
    /\ UNCHANGED <<revVars, auxVars, clock, presenceVars, task, timers, merges, cleanups,
                   mergeLocks, workerLocks, nReqs, diskVars, lastPU, lastEv,
                   nEvents>>

\* Second definition of endMeeting: no host test; only isActive is set.
EndMeetingFound2(q) ==
    LET t == httpReq[q] IN
    /\ endRev = 2
    /\ t.pc = "hend_found"
    /\ IF ~t.doc.exists
       THEN /\ httpReq' = [httpReq EXCEPT ![q] = Respond("end", 404)]
            /\ UNCHANGED meetings
       ELSE /\ meetings' = [meetings EXCEPT ![Room].isActive = FALSE]
            /\ httpReq' = [httpReq EXCEPT ![q] = Respond("end", 200)]
    /\ out' = {}
    /\ UNCHANGED <<revVars, auxVars, clock, presenceVars, task, timers, merges, cleanups,
                   mergeLocks, workerLocks, nReqs, diskVars, lastPU, lastEv,
                   nEvents>>

\* ======================================================== webrtc relay
RelayKinds == {"webrtc:offer", "webrtc:answer", "webrtc:ice-candidate"}

\* A relay event is accepted from any connected socket, also while one of
\* its asynchronous handlers is waiting.
CanRelay(s) ==
    /\ s \in connected
    /\ nEvents + nReqs < MaxEvents

\* getSenderInfo of revision 1 and getSocketUserId of webrtcHandler.js:
\* the entry registered for the socket, with null fields when none is.
getSenderInfo(s) == socketUserMap[s]

getSocketUserId(s) == socketUserMap[s].userId

\* socketForUser of revision 1: the socket userSocketMap names, or null;
\* no entry is touched.
socketForUser(u) ==
    IF userSocketMap[u] = None THEN None
    ELSE IF userSocketMap[u] \in connected THEN userSocketMap[u]
    ELSE None

\* Revision 1: webrtc:offer / answer / ice-candidate.  The event is sent
\* to the target found, otherwise nothing happens.
Relay1(s, kind, u) ==
    LET sender == getSenderInfo(s)
        target == socketForUser(u)
    IN
    /\ build = 1
    /\ CanRelay(s)
    /\ out' = IF target # None THEN {Ev(target, kind, sender.userId)} ELSE {}
    /\ lookup' = [n |-> lookup.n + 1, from |-> s, kind |-> kind,
                  user |-> u, sock |-> target]
    /\ nEvents' = nEvents + 1
    /\ UNCHANGED <<revVars, answerTimeouts, endVars, mergeCalls, invalidJoins,
                   meetings, clock, presenceVars, task, mergeVars, lastPU,
                   lastEv>>

\* findSocketByUserId of webrtcHandler.js.  The socket userSocketMap names
\* is returned when it is connected.  Otherwise a stale pair of entries is
\* deleted and socketUserMap is searched for a connected socket of the
\* user, for which userSocketMap is rebuilt; null when there is none.
socketUserMapCleaned(u) ==
    [c \in Sockets |-> IF c = userSocketMap[u] THEN NoEntry
                       ELSE socketUserMap[c]]

findSocketByUserId(u, found) ==
    IF userSocketMap[u] # None /\ userSocketMap[u] \in connected
    THEN /\ found = userSocketMap[u]
         /\ UNCHANGED <<userSocketMap, socketUserMap>>
    ELSE LET cands == {c \in connected : socketUserMapCleaned(u)[c].userId = u}
         IN /\ socketUserMap' = socketUserMapCleaned(u)
            /\ IF cands = {}
               THEN /\ found = None
                    /\ userSocketMap' = [userSocketMap EXCEPT ![u] = None]
               ELSE /\ found \in cands
                    /\ userSocketMap' = [userSocketMap EXCEPT ![u] = found]

\* The key `${from}-${to}` of the answerTimeouts map that the handlers
\* registered on socket s keep.
TimeoutKey(s, from, to) == [sock |-> s, from |-> from, to |-> to]

\* Revision 2 (registerWebRTCHandlers): an offer forwarded arms the answer
\* timer; an answer forwarded clears the timer kept under the reversed
\* key by the answering socket's own handlers; an offer or answer whose
\* target is not found is answered with webrtc:error; an ice-candidate
\* whose target is not found is only logged.
Relay2(s, kind, u, found) ==
    LET fromUserId == getSocketUserId(s) IN
    /\ build = 2
    /\ CanRelay(s)
    /\ findSocketByUserId(u, found)
    /\ out' = IF found # None THEN {Ev(found, kind, fromUserId)}
              ELSE IF kind = "webrtc:ice-candidate" THEN {}
              ELSE {Ev(s, "webrtc:error", u)}
    /\ answerTimeouts' =
         IF found = None THEN answerTimeouts
         ELSE IF kind = "webrtc:offer"
              THEN answerTimeouts \cup {TimeoutKey(s, fromUserId, u)}
         ELSE IF kind = "webrtc:answer"
              THEN answerTimeouts \ {TimeoutKey(s, u, fromUserId)}
         ELSE answerTimeouts
    /\ lookup' = [n |-> lookup.n + 1, from |-> s, kind |-> kind,
                  user |-> u, sock |-> found]
    /\ nEvents' = nEvents + 1
    /\ UNCHANGED <<revVars, endVars, mergeCalls, invalidJoins, meetings, clock,
                   connected, inRoom, task, mergeVars, lastPU, lastEv>>

\* The answer timer of key k fires: webrtc:answer-timeout to the offerer.
AnswerTimeout(k) ==
    /\ k \in answerTimeouts
    /\ out' = IF k.sock \in connected
              THEN {Ev(k.sock, "webrtc:answer-timeout", k.to)} ELSE {}
    /\ answerTimeouts' = answerTimeouts \ {k}
    /\ UNCHANGED <<revVars, lookup, endVars, mergeCalls, invalidJoins,
                   meetings, clock, presenceVars, task, mergeVars, lastPU,
                   lastEv, nEvents>>

\* =============================================================== claims
Parts == meetings[Room].participants

HandlersIdle == \A s \in Sockets : task[s].pc = "idle"

\* A socket handler returns in this step.
Completes(s) == task[s].pc # "idle" /\ task'[s].pc = "idle"

PipelineRuns == merges["running"] + merges["detached"]
                  + Cardinality(Merging("merge"))
                  + Cardinality(Merging("wmerge"))

C2_AtMostOnePipelineRun == PipelineRuns <= 1

\* C3: once all handlers have completed, the participant list of the
\* active meeting holds exactly the users whose last join has not been
\* followed by a leave or disconnect, each once.
C3_ParticipantsMatchJoins ==
    HandlersIdle /\ meetings[Room].isActive
      => /\ {Parts[i].user : i \in 1..Len(Parts)}
              = {u \in Users : lastEv[u] = "join"}
         /\ Len(Parts) = Cardinality({u \in Users : lastEv[u] = "join"})

\* C4: no participant list holds the same userId twice.
C4_NoDuplicateParticipant ==
    \A i, j \in 1..Len(Parts) : Parts[i].user = Parts[j].user => i = j

\* C5: with interleaved join / leave handlers no registry update is lost
\* and the last participants-updated broadcast equals the final list.
C5_LastBroadcastIsFinalList ==
    HandlersIdle /\ meetings[Room].isActive
      => /\ {Parts[i].user : i \in 1..Len(Parts)}
              = {u \in Users : lastEv[u] = "join"}
         /\ lastPU # <<None>> => lastPU = UserList(Parts)

\* C6: once isActive is false it stays false, and no step adds a
\* participant or a presence entry for the room afterwards.
C6_InactiveIsTerminal ==
    [][~meetings[Room].isActive =>
         /\ ~meetings'[Room].isActive
         /\ Len(meetings'[Room].participants) <= Len(Parts)
         /\ \A s \in Sockets :
              socketUserMap'[s].userId # None
                => socketUserMap'[s] = socketUserMap[s]]_vars

\* C7: an end-meeting request whose caller is not the host leaves the
\* meeting, the presence maps and the timers unchanged and broadcasts no
\* meeting-ended.
C7_NonHostEndRejected ==
    [][(\/ \E s \in Sockets :
              /\ task[s].pc = "end_found" /\ Completes(s)
              /\ task[s].user # meetings[Room].host
        \/ \E q \in Reqs :
              /\ httpReq[q].pc = "hend_found" /\ httpReq'[q].pc = "idle"
              /\ httpReq[q].user # meetings[Room].host)
       => /\ UNCHANGED <<meetings, presenceVars, timers>>
          /\ \A e \in out' : e.ev # "meeting-ended"]_vars

C9_HostLeaveTransfers ==
    [][\A s \in Sockets :
         task[s].hostLeave = "others" /\ Completes(s)
           => LET ps == meetings'[Room].participants
                  hosts == {i \in 1..Len(ps) : ps[i].role = "host"}
              IN ps # <<>> =>
                   /\ Cardinality(hosts) = 1
                   /\ \A i \in hosts :
                        /\ ps[i].user = meetings'[Room].host
                        /\ \A j \in 1..Len(ps) : ps[i].joinedAt <= ps[j].joinedAt
                        /\ task[s].xfer = ps[i].user]_vars

\* C10: when the leave-room handler of a host that was alone in the room
\* completes, the meeting is inactive.
C10_LoneHostLeaveEnds ==
    [][\A s \in Sockets :
         task[s].hostLeave = "alone" /\ Completes(s)
           => ~meetings'[Room].isActive]_vars

\* The disconnect handler of socket s, started for the room's host,
\* returns in this step.
DiscPcs == {"disc_found", "disc_saved", "disc_list", "disc2_found",
            "disc2_ended", "disc2_fetch", "disc2_rm", "disc2_removed",
            "disc2_list"}

HostDisconnectDone(s) ==
    task[s].pc \in DiscPcs /\ task[s].flag /\ Completes(s)

\* C11: when the disconnect of the host's connection has been handled the
\* meeting is inactive with an empty participant list, the members left
\* in the room have been sent meeting-ended, no presence entry is left
\* and the host field is unchanged.
C11_HostDisconnectEnds ==
    [][\A s \in Sockets :
         HostDisconnectDone(s) =>
           /\ ~meetings'[Room].isActive
           /\ meetings'[Room].participants = <<>>
           /\ (inRoom' \cap connected') \ {s} \subseteq ended'
           /\ \A c \in Sockets : socketUserMap'[c] = NoEntry
           /\ \A u \in Users : userSocketMap'[u] = None
           /\ meetings'[Room].host = meetings[Room].host]_vars

\* C12: with A (host) and then B listed, when the disconnect of A's
\* connection has been handled host-transferred naming B has been sent,
\* the room is active and its participant list is exactly [B].
C12_HostDisconnectTransfers ==
    [][\A s \in Sockets :
         LET d == task[s].doc IN
         /\ HostDisconnectDone(s)
         /\ d.isActive
         /\ Len(d.participants) = 2
         /\ d.participants[1].user = d.host
         /\ d.participants[2].user # d.host
         => /\ task[s].xfer = d.participants[2].user
            /\ meetings'[Room].isActive
            /\ UserList(meetings'[Room].participants)
                 = <<d.participants[2].user>>]_vars

HostEntries == {i \in 1..Len(Parts) : Parts[i].role = "host"}

\* C13: while the meeting is active and its participant list is not
\* empty exactly one entry has role host and it is that of the meeting's
\* host; no list ever holds two entries with role host.
C13_ExactlyOneHost ==
    /\ Cardinality(HostEntries) <= 1
    /\ meetings[Room].isActive /\ Parts # <<>>
         => /\ Cardinality(HostEntries) = 1
            /\ \A i \in HostEntries : Parts[i].user = meetings[Room].host

\* C14: each userId has at most one presence entry: a join-room for a
\* user with a live connection evicts that connection's entry before the
\* new one is recorded.
C14_OneConnectionPerUser ==
    \A u \in Users :
        Cardinality({c \in Sockets : socketUserMap[c].userId = u}) <= 1

\* C15: the two presence indexes agree: socketUserMap[c].userId = u
\* exactly when userSocketMap[u] = c.
C15_IndexesAgree ==
    \A c \in Sockets, u \in Users :
        socketUserMap[c].userId = u <=> userSocketMap[u] = c

\* Nothing is pending: every handler has returned, no timer is armed, no
\* merge request and no room cleanup is in flight.
Quiescent ==
    /\ HandlersIdle
    /\ timers["stop"] = 0 /\ timers["end"] = 0
    /\ \A p \in DOMAIN merges : merges[p] = 0
    /\ cleanups = <<>>

\* C16: once an end-meeting sent by the host has been handled and nothing
\* is pending any more (so that what has not happened by then never
\* happens unless a client sends something new), the meeting is inactive,
\* its participant list is empty, every connection that was in the room
\* has been sent meeting-ended, the merge has been invoked, and neither
\* presence index refers to a connection that was in the room.
C16_EndMeetingCompletes ==
    Quiescent /\ endMembers # <<>>
      => /\ ~meetings[Room].isActive
         /\ Parts = <<>>
         /\ endMembers[1] \subseteq ended
         /\ mergeCalls >= 1
         /\ \A c \in endMembers[1] : socketUserMap[c] = NoEntry
         /\ \A u \in Users : userSocketMap[u] \notin endMembers[1]

\* C17: a join-room whose findOne found no meeting or an inactive one, or
\* that came without roomId or userId, is answered with join-error to
\* the caller (if its connection is still open) and nothing else: the
\* handler returns, the meetings, both presence indexes, the room's
\* members and the last participants-updated broadcast are unchanged and
\* nothing else is emitted.
C17_RefusedJoinChangesNothing ==
    [][/\ \A s \in Sockets :
            /\ task[s].pc = "join_found"
            /\ ~task[s].doc.exists \/ ~task[s].doc.isActive
            /\ task'[s] # task[s]
            => /\ task'[s] = Idle
               /\ \E msg \in {"not found", "ended"} :
                    out' = IF s \in connected
                           THEN {Ev(s, "join-error", msg)} ELSE {}
               /\ UNCHANGED <<meetings, presenceVars, lastPU>>
       /\ invalidJoins' # invalidJoins
            => /\ \E s \in Sockets : out' = {Ev(s, "join-error", "required")}
               /\ UNCHANGED <<meetings, presenceVars, lastPU, task>>]_vars

\* A join-room for the ended meeting has just been refused.
C17_Witness ==
    /\ ~meetings[Room].isActive
    /\ \E s \in Sockets : out = {Ev(s, "join-error", "ended")}

\* A relay event has been handled in this step.
Relayed == lookup'.n # lookup.n

\* No connected socket is registered for user u in either presence index.
NoLiveConnection(u) ==
    /\ userSocketMap[u] \notin connected
    /\ \A c \in connected : socketUserMap[c].userId # u

\* C18: a relay event whose target user has no live connection in the
\* presence maps is answered to its sender with a delivery-failure
\* notice, and every relay event is either forwarded or answered.
C18_UndeliveredRelaySignalled ==
    [][Relayed =>
         /\ NoLiveConnection(lookup'.user)
              => Ev(lookup'.from, "webrtc:error", lookup'.user) \in out'
         /\ out' # {}]_vars

\* C19: a relay event is forwarded only to a socket whose presence entry
\* is that of the target user and in the room of the sender's presence
\* entry, and the forwarded fromUserId is the userId of the sender's
\* presence entry, never null.
C19_RelayWithinRoom ==
    [][Relayed =>
         \A e \in out' :
             e.ev \in RelayKinds
               => /\ socketUserMap[lookup'.from].userId # None
                  /\ e.arg = socketUserMap[lookup'.from].userId
                  /\ socketUserMap[e.to].userId = lookup'.user
                  /\ socketUserMap[e.to].roomId
                       = socketUserMap[lookup'.from].roomId]_vars

\* C20: after a lookup of user u that returned socket c, c is connected,
\* userSocketMap[u] = c and socketUserMap[c].userId = u; after one that
\* returned nothing userSocketMap has no entry for u and the socket it
\* named has no socketUserMap entry.
C20_LookupLeavesIndexesConsistent ==
    [][Relayed =>
         LET u == lookup'.user
             c == lookup'.sock
         IN IF c # None
            THEN /\ c \in connected'
                 /\ userSocketMap'[u] = c
                 /\ socketUserMap'[c].userId = u
            ELSE /\ userSocketMap'[u] = None
                 /\ userSocketMap[u] # None
                      => socketUserMap'[userSocketMap[u]] = NoEntry]_vars

\* An upload that has been answered.
Answered(q) == httpReq[q].kind = "upload" /\ httpReq[q].pc = "idle"

StoredBy(id) == {p \in DOMAIN disk : disk[p].by = id}

\* C21: an upload whose decoded payload is smaller than the minimum
\* fragment size (50 bytes) has been answered with the 400 of a corrupt
\* chunk, and no file written by it exists.
C21_UndersizedUploadRejected ==
    \A q \in Reqs :
        Answered(q) /\ httpReq[q].size = Tiny
          => httpReq[q].code = 400 /\ StoredBy(httpReq[q].id) = {}

\* An upload is refused by validation in this step: it arrives and is
\* answered 400 at once.
Refused(q) ==
    /\ httpReq[q].pc = "idle"
    /\ nReqs' = nReqs + 1
    /\ httpReq'[q].id = nReqs'
    /\ httpReq'[q].kind = "upload"
    /\ httpReq'[q].pc = "idle"
    /\ httpReq'[q].code = 400

\* C22: an upload that validation refuses (no roomId, userId or sequence
\* key, chunkData missing or not decodable, empty or undersized buffer)
\* leaves the storage as it was: no chunk file and no room or user
\* directory is created.
C22_RefusedUploadLeavesStorage ==
    [][\A q \in Reqs : Refused(q) => UNCHANGED diskVars]_vars

\* The stored fragments of user u whose sequence key is k.
Fragments(u, k) == {p \in Chunks(u) : p.name.key = k}

\* C23: when two uploads of the same user and sequence key, both sent
\* with chunkIndex or both with the same chunkId, have been answered 200
\* and no upload is in flight, exactly one fragment is stored for that
\* key and it holds the whole payload of the later upload.
C23_ReuploadOverwrites ==
    \A q1, q2 \in Reqs :
        /\ Answered(q1) /\ Answered(q2)
        /\ httpReq[q1].code = 200 /\ httpReq[q2].code = 200
        /\ httpReq[q1].id < httpReq[q2].id
        /\ httpReq[q1].user = httpReq[q2].user
        /\ httpReq[q1].kk = httpReq[q2].kk
        /\ httpReq[q1].path.name.key = httpReq[q2].path.name.key
        /\ httpReq[q1].kk = "id" => httpReq[q1].path = httpReq[q2].path
        => LET F == Fragments(httpReq[q1].user, httpReq[q1].path.name.key) IN
           /\ Cardinality(F) = 1
           /\ \A p \in F : /\ disk[p].by = httpReq[q2].id
                           /\ disk[p].state = "full"

\* C24: every file under a name that ends in .webm holds the complete
\* payload of exactly one upload, whatever uploads are in flight.
C24_VisibleChunksComplete ==
    \A p \in DOMAIN disk : ~p.tmp => disk[p].state = "full"

\* A pipeline run of an HTTP merge request that has listed its chunks.
Listed(q) ==
    /\ httpReq[q].kind \in {"merge", "wmerge"}
    /\ \E u \in DOMAIN httpReq[q].lists : httpReq[q].lists[u] # <<>>

\* C25: the list of chunks a run hands to concatenation is ordered by
\* increasing sequence key, whatever the order the chunks arrived in.
C25_ConcatOrderedByKey ==
    \A q \in Reqs :
        Listed(q) =>
          \A u \in DOMAIN httpReq[q].lists :
             LET l == httpReq[q].lists[u] IN
             \A i, j \in 1..Len(l) : i < j => l[i].name.key <= l[j].name.key

\* A merge request that took the lock and has been answered.
RunFinished(q) ==
    /\ httpReq[q].kind \in {"merge", "wmerge"}
    /\ httpReq[q].pc = "idle"
    /\ httpReq[q].code \in {200, 500}
    /\ DOMAIN httpReq[q].lists # {}

\* C26: the room is in mergeLocks only while a pipeline run of a merge
\* request executes, so not after the request that took the lock has
\* finished, in success or in failure, and 409 is answered only to a
\* request that arrived during a run; the same for the merge-worker.
C26_LockHeldOnlyDuringRun ==
    /\ Room \in mergeLocks => Merging("merge") # {}
    /\ Room \in workerLocks => Merging("wmerge") # {}
    /\ \A q \in Reqs : httpReq[q].code = 409 => httpReq[q].busy

C26_Witness ==
    /\ \E q \in Reqs : RunFinished(q) /\ httpReq[q].code = 500
    /\ \E q \in Reqs : RunFinished(q) /\ httpReq[q].code = 200
    /\ mergeLocks = {} /\ workerLocks = {}

\* A pipeline run fails in this step.
RunFails(q) ==
    /\ httpReq[q].pc \in {"merging", "finalizing"}
    /\ httpReq'[q].pc = "idle"
    /\ httpReq'[q].code = 500

\* A pipeline run of the server succeeds in this step.
RunSucceeds(q) ==
    /\ httpReq[q].pc = "finalizing"
    /\ httpReq'[q].pc = "idle"
    /\ httpReq'[q].code = 200

\* C27: the step in which a merge run fails leaves every chunk file and
\* user directory as it was, and a chunk file or a user directory is
\* removed only by the step in which a run succeeds.
C27_FailedRunKeepsChunks ==
    [][/\ \A q \in Reqs : RunFails(q) => UNCHANGED <<userDirs, disk>>
       /\ (\E u \in Users : \/ Chunks(u) \ DOMAIN disk' # {}
                            \/ u \in userDirs \ userDirs')
            => \E q \in Reqs : RunSucceeds(q)]_vars

C27_Witness ==
    \E q \in Reqs :
        /\ RunFinished(q) /\ httpReq[q].code = 500 /\ Listed(q)
        /\ \A u \in DOMAIN httpReq[q].lists : Chunks(u) # {}

\* C28: a merge request for a room without a participant directory is
\* answered with an error at once, starts no pipeline step, leaves the
\* locks free and leaves the storage as it was: the room directory is
\* not created.
C28_MergeOfEmptyRoomChangesNothing ==
    [][\A q \in Reqs :
          (userDirs = {} /\ httpReq[q].pc = "idle" /\ nReqs' = nReqs + 1
             /\ httpReq'[q].kind \in {"merge", "wmerge"}
             /\ httpReq' # httpReq /\ httpReq'[q] # httpReq[q])
            => /\ httpReq'[q].pc = "idle"
               /\ httpReq'[q].code \in {400, 404, 500}
               /\ UNCHANGED <<mergeLocks, workerLocks, diskVars>>]_vars

\* C29: a download that is answered with the file streams the finished
\* final recording: while a merge is writing it, or after a merge has
\* failed, the answer is 404.
C29_DownloadOnlyFinished ==
    \A q \in Reqs :
        httpReq[q].kind = "download" /\ httpReq[q].code = 200
          => httpReq[q].fd = "complete"

\* triggerMergeForRoom calls that have emitted merge-started and no
\* outcome yet.
Pending == merges["requested"] + merges["running"] + merges["ok"]
             + merges["failed"]

Members == inRoom \cap connected

Emitted(ev) == \E e \in out' : e.ev = ev

OutcomeStep(ph) == merges'[ph] < merges[ph]

OutcomeName(ph) == IF ph = "ok" THEN "merge-success" ELSE "merge-failed"

\* C31: the outcome of a merge that end-meeting scheduled (merge-success
\* or merge-failed) is sent to every connection that was in the room when
\* the host ended the meeting, although cleanupRoomAfterEnd releases the
\* room's presence entries and memberships while the merge runs.
C31_EndMergeOutcomeReachesMembers ==
    [][\A ph \in {"ok", "failed"} :
         OutcomeStep(ph) /\ endMembers # <<>>
           => \A c \in endMembers[1] \cap connected :
                 Ev(c, OutcomeName(ph), "-") \in out']_vars


\* C32: once a successful merge has written the room's final recording,
\* no later step changes the file: a second merge for the room, asked
\* for over HTTP or started by a timer, neither overwrites nor rewrites
\* it (no delete is among the steps).
C32_FinalRecordingImmutable ==
    [][finalRec = "complete" => finalRec' = "complete"]_vars

\* The chunk files the run of request record t handed to concatenation.
ConsumedIn(t) ==
    UNION {{t.lists[u][i] : i \in 1..Len(t.lists[u])} : u \in DOMAIN t.lists}

Consumed(q) == ConsumedIn(httpReq[q])

\* C33: a raw chunk is deleted only after a merge that succeeded has
\* consumed it: a whole chunk that landed in a participant directory
\* after the run listed that directory is not removed by the cleanup of
\* that run.
C33_DeletedChunksWereMerged ==
    [][\A q \in Reqs :
         RunSucceeds(q) =>
           \A p \in DOMAIN disk \ DOMAIN disk' :
              ~p.tmp /\ disk[p].state = "full" /\ validateChunk(p)
                => p \in Consumed(q)]_vars

\* The userId the presence entry of connection s registers is not u.
NotRegisteredAs(s, u) == socketUserMap[s].userId # u

\* C34: a leave-room, end-meeting, start-recording or stop-recording
\* event changes room state only when the userId / hostId of its payload
\* is the userId registered for the sending connection: with another id
\* a leave-room removes no presence entry and no membership, and an
\* end-meeting, start-recording or stop-recording leaves the meeting and
\* the timers as they were and notifies nobody.
C34_PayloadIdentityIsSenders ==
    [][\A s \in Sockets :
         /\ (/\ task[s].pc = "idle"
             /\ task'[s].pc = "leave_found"
             /\ NotRegisteredAs(s, task'[s].user))
              => UNCHANGED <<userSocketMap, socketUserMap, inRoom>>
         /\ (/\ task[s].pc \in {"end_found", "start_found", "stop_found"}
             /\ (Completes(s) \/ task'[s].pc = "end_saved")
             /\ NotRegisteredAs(s, task[s].user))
              => /\ UNCHANGED <<meetings, timers>>
                 /\ \A e \in out' :
                      e.ev \notin {"meeting-ended", "recording-started",
                                   "recording-stopped"}]_vars

\* Connection c is the one user u joined from last: both presence
\* indexes name it, and it is not the connection s.
Rejoined(s, c, u) ==
    /\ c # s /\ c \in connected
    /\ userSocketMap[u] = c
    /\ socketUserMap[c].userId = u

\* A step of the disconnect of connection s: the transport closes it, or
\* its disconnect handler goes on.
DisconnectStep(s) ==
    \/ s \in connected \ connected'
    \/ task[s].pc \in DiscPcs /\ task'[s] # task[s]

\* C35: when a user has joined again from a new connection, the
\* disconnect of the user's previous connection leaves the new
\* connection's entries in both presence indexes and the user's
\* participant entry in place: a disconnect removes only what belongs to
\* the disconnecting connection.
C35_StaleDisconnectKeepsRejoin ==
    [][\A s, c \in Sockets, u \in Users :
         (/\ DisconnectStep(s)
          /\ Rejoined(s, c, u)
          /\ socketUserMap[s].userId = u \/ task[s].user = u)
           => /\ userSocketMap'[u] = c
              /\ socketUserMap'[c] = socketUserMap[c]
              /\ HasUser(Parts, u) => HasUser(meetings'[Room].participants, u)]_vars

\* C36: when a client is sent meeting-ended the registry already records
\* the room as inactive with an empty participant list, and a join-room
\* for the room that arrives after a client was sent meeting-ended finds
\* the meeting ended and is refused.
C36_EndedBeforeNotified ==
    [][/\ ended' # ended
            => /\ ~meetings'[Room].isActive
               /\ meetings'[Room].participants = <<>>
       /\ \A s \in Sockets :
            (/\ ended # {}
             /\ task[s].pc = "idle" /\ task'[s].pc = "join_found"
             /\ task'[s].room = Room)
              => JoinRefused(task'[s].doc)]_vars

\* The handler of s that completes in this step serves the first event
\* the server received: no start-recording came before it, the
\* recording session of the room is Idle.
FirstEventDone(s) == nEvents = 1 /\ task[s].pc # "idle" /\ task'[s].pc = "idle"

\* C37: a merge is scheduled only by a stop-recording or end-meeting that
\* finds the recording session in Recording: a stop-recording with no
\* start-recording before it, and an end-meeting of a room that never
\* recorded, arm no merge timer.
C37_MergeOnlyAfterRecording ==
    [][\A s \in Sockets : FirstEventDone(s) => timers' = timers]_vars

\* C38: after an offer of user A was forwarded to user B and the answer
\* timer armed, the relay of B's answer to A cancels that timer, so that
\* A is not sent webrtc:answer-timeout for an offer that was answered.
C38_AnswerCancelsTimeout ==
    [][(Relayed /\ lookup'.kind = "webrtc:answer" /\ lookup'.sock # None)
         => \A k \in answerTimeouts' :
               ~(/\ k.from = lookup'.user
                 /\ k.to = getSocketUserId(lookup'.from))]_vars

\* C39: a chunk whose upload was answered with success and that no later
\* upload has overwritten is in its participant's concatenation list
\* when a merge of the room lists that participant's directory: the
\* size checks of the merge exclude no chunk the upload accepted.
C39_AcceptedChunksAreMerged ==
    [][\A q, m \in Reqs :
         (/\ Answered(q) /\ httpReq[q].code = 200
          /\ httpReq[q].path \in DOMAIN disk
          /\ disk[httpReq[q].path].by = httpReq[q].id
          /\ httpReq[q].path.user \in DOMAIN httpReq[m].lists
          /\ httpReq[m].pc = "merging" /\ httpReq'[m].pc = "finalizing")
           => httpReq[q].path \in ConsumedIn(httpReq'[m])]_vars

\* A download with a Range header that found the final recording.
RangeAnswered(q) ==
    /\ httpReq[q].kind = "download" /\ httpReq[q].range.given
    /\ httpReq[q].code # 404

\* C40: a download with a Range header on a final recording of S bytes
\* is answered 416 with start >= S, or 206 with
\* 0 <= start <= end <= S - 1 and Content-Length = end - start + 1.
C40_RangeWithinFile ==
    \A q \in Reqs :
        RangeAnswered(q) =>
          LET r == httpReq[q].range
              S == httpReq[q].size
          IN \/ httpReq[q].code = 416 /\ r.start >= S
             \/ /\ httpReq[q].code = 206
                /\ 0 <= r.start /\ r.start <= r.end /\ r.end <= S - 1
                /\ r.length = r.end - r.start + 1

\* ======================================================= specifications
\* Presence: join, leave and disconnect of both revisions.
NextPresence ==
    \/ \E s \in Sockets, r \in RoomIds, u \in Users : JoinRoom(s, r, u)
    \/ \E s \in Sockets : JoinFound1(s)
    \/ \E s \in Sockets : JoinSaved1(s)
    \/ \E s \in Sockets : JoinList1(s)
    \/ \E s \in Sockets : JoinList2(s)
    \/ \E s \in Sockets, u \in Users : LeaveRoom1(s, Room, u)
    \/ \E s \in Sockets : LeaveFound1(s)
    \/ \E s \in Sockets : LeaveSaved1(s)
    \/ \E s \in Sockets : LeaveList1(s)
    \/ \E s \in Sockets : Disconnect1(s)
    \/ \E s \in Sockets : DiscFound1(s)
    \/ \E s \in Sockets : DiscSaved1(s)
    \/ \E s \in Sockets : DiscList1(s)
    \/ \E s \in Sockets : JoinFound2(s)
    \/ \E s \in Sockets : addParticipantToMeeting(s)
    \/ \E s \in Sockets : JoinSaved2(s)
    \/ \E s \in Sockets : JoinList2b(s)
    \/ \E s \in Sockets, u \in Users : LeaveRoom2(s, Room, u)
    \/ \E s \in Sockets : LeaveFound2(s)
    \/ \E s \in Sockets : removeParticipantFromMeeting(s)
    \/ \E s \in Sockets : LeaveRemoved2(s)
    \/ \E s \in Sockets : transferHostRole(s)
    \/ \E s \in Sockets : LeaveXferSaved2(s)
    \/ \E s \in Sockets : LeaveList2(s)
    \/ \E s \in Sockets : Disconnect2(s)
    \/ \E s \in Sockets : DiscFound2(s)
    \/ \E s \in Sockets : DiscEnded2(s)
    \/ \E s \in Sockets : DiscCleanup2(s)
    \/ \E s \in Sockets : DiscRemoved2(s)
    \/ \E s \in Sockets : DiscList2(s)

\* Recording control of revision 1: joins, start / stop recording, end of
\* the meeting, the merge timers and the merge-worker.
NextControl ==
    \/ \E s \in Sockets, u \in Users : JoinRoom(s, Room, u)
    \/ \E s \in Sockets : JoinFound1(s)
    \/ \E s \in Sockets : JoinSaved1(s)
    \/ \E s \in Sockets : JoinList1(s)
    \/ \E s \in Sockets : JoinList2(s)
    \/ \E s \in Sockets, h \in Users : StartRecording1(s, Room, h)
    \/ \E s \in Sockets : StartFound1(s)
    \/ \E s \in Sockets, h \in Users : StopRecording1(s, Room, h)
    \/ \E s \in Sockets : StopFound1(s)
    \/ \E s \in Sockets, h \in Users : EndMeeting1(s, Room, h)
    \/ \E s \in Sockets : EndFound1(s)
    \/ \E s \in Sockets : EndSaved1(s)
    \/ StopTimer
    \/ EndTimer
    \/ \E i \in 1..Len(cleanups) : cleanupRoomAfterEnd(i)
    \/ WorkerMergeStart
    \/ \E ok \in BOOLEAN : WorkerMergeEnd(ok)
    \/ \E ph \in {"requested", "running"} : RequestTimeout(ph)
    \/ \E ok \in BOOLEAN : DetachedMergeEnd(ok)
    \/ \E ok \in BOOLEAN : MergeOutcome(ok)

\* End of the meeting over the socket (revision 1) and over HTTP (both
\* definitions of endMeeting), with the joins of both revisions.
NextEnd ==
    \/ \E s \in Sockets : JoinRoomInvalid(s)
    \/ \E s \in Sockets, r \in RoomIds, u \in Users : JoinRoom(s, r, u)
    \/ \E s \in Sockets : JoinFound1(s)
    \/ \E s \in Sockets : JoinSaved1(s)
    \/ \E s \in Sockets : JoinList1(s)
    \/ \E s \in Sockets : JoinList2(s)
    \/ \E s \in Sockets : JoinFound2(s)
    \/ \E s \in Sockets : addParticipantToMeeting(s)
    \/ \E s \in Sockets : JoinSaved2(s)
    \/ \E s \in Sockets : JoinList2b(s)
    \/ \E s \in Sockets, h \in Users : EndMeeting1(s, Room, h)
    \/ \E s \in Sockets : EndFound1(s)
    \/ \E s \in Sockets : EndSaved1(s)
    \/ \E q \in Reqs, c \in Users : endMeeting(q, c)
    \/ \E q \in Reqs : EndMeetingFound1(q)
    \/ \E q \in Reqs : EndMeetingFound2(q)

\* HTTP merge requests of the server and of the merge-worker, and uploads.
NextMerge ==
    \/ \E q \in Reqs, b \in IndexBodies :
          uploadChunk(q, b.roomId, b.userId, b.kk, b.key, b.size)
    \/ \E q \in Reqs, b \in IndexBodies, t \in Stamps :
          uploadChunkAtomic(q, b.roomId, b.userId, b.kk, b.key, t, b.size)
    \/ \E q \in Reqs : UpOpen(q)
    \/ \E q \in Reqs : UpWrite(q)
    \/ \E q \in Reqs : UpRename(q)
    \/ \E q \in Reqs : mergeMeetingRecording(q)
    \/ \E q \in Reqs, ok \in BOOLEAN : Concat(q, ok)
    \/ \E q \in Reqs, ok \in BOOLEAN : MergeEnd(q, ok)
    \/ \E q \in Reqs : mergeRecording(q)
    \/ \E q \in Reqs, ok \in BOOLEAN : WorkerMergeRecordingEnd(q, ok)
    \/ \E q \in Reqs : downloadMeetingRecording(q)

\* Uploads of both definitions, step by step.
NextUpload ==
    \/ \E q \in Reqs, b \in Bodies :
          uploadChunk(q, b.roomId, b.userId, b.kk, b.key, b.size)
    \/ \E q \in Reqs, b \in Bodies, t \in Stamps :
          uploadChunkAtomic(q, b.roomId, b.userId, b.kk, b.key, t, b.size)
    \/ \E q \in Reqs : UpOpen(q)
    \/ \E q \in Reqs : UpWrite(q)
    \/ \E q \in Reqs : UpRename(q)

\* The relay of both revisions with the joins and disconnects that fill
\* and empty the presence indexes.
NextRelay ==
    \/ \E s \in Sockets, u \in Users : JoinRoom(s, Room, u)
    \/ \E s \in Sockets : JoinFound1(s)
    \/ \E s \in Sockets : JoinSaved1(s)
    \/ \E s \in Sockets : JoinList1(s)
    \/ \E s \in Sockets : JoinList2(s)
    \/ \E s \in Sockets : Disconnect1(s)
    \/ \E s \in Sockets : DiscFound1(s)
    \/ \E s \in Sockets : DiscSaved1(s)
    \/ \E s \in Sockets : DiscList1(s)
    \/ \E s \in Sockets : JoinFound2(s)
    \/ \E s \in Sockets : addParticipantToMeeting(s)
    \/ \E s \in Sockets : JoinSaved2(s)
    \/ \E s \in Sockets : JoinList2b(s)
    \/ \E s \in Sockets : Disconnect2(s)
    \/ \E s \in Sockets : DiscFound2(s)
    \/ \E s \in Sockets : DiscEnded2(s)
    \/ \E s \in Sockets : DiscCleanup2(s)
    \/ \E s \in Sockets : removeParticipantFromMeeting(s)
    \/ \E s \in Sockets : DiscRemoved2(s)
    \/ \E s \in Sockets : DiscList2(s)
    \/ \E s \in Sockets, k \in RelayKinds, u \in Users : Relay1(s, k, u)
    \/ \E s \in Sockets, k \in RelayKinds, u \in Users,
          found \in Sockets \cup {None} : Relay2(s, k, u, found)
    \/ \E k \in answerTimeouts : AnswerTimeout(k)

\* End of the meeting of revision 1 and the merge its timer starts; no
\* recording is stopped, so every merge is the one end-meeting scheduled.
NextEndMerge ==
    \/ \E s \in Sockets, u \in Users : JoinRoom(s, Room, u)
    \/ \E s \in Sockets : JoinFound1(s)
    \/ \E s \in Sockets : JoinSaved1(s)
    \/ \E s \in Sockets : JoinList1(s)
    \/ \E s \in Sockets : JoinList2(s)
    \/ \E s \in Sockets, h \in Users : EndMeeting1(s, Room, h)
    \/ \E s \in Sockets : EndFound1(s)
    \/ \E s \in Sockets : EndSaved1(s)
    \/ EndTimer
    \/ \E i \in 1..Len(cleanups) : cleanupRoomAfterEnd(i)
    \/ WorkerMergeStart
    \/ \E ok \in BOOLEAN : WorkerMergeEnd(ok)
    \/ \E ph \in {"requested", "running"} : RequestTimeout(ph)
    \/ \E ok \in BOOLEAN : DetachedMergeEnd(ok)
    \/ \E ok \in BOOLEAN : MergeOutcome(ok)

\* The relay of revision 2 between two users who have joined.
NextAnswer ==
    \/ \E s \in Sockets, k \in RelayKinds, u \in Users,
          found \in Sockets \cup {None} : Relay2(s, k, u, found)
    \/ \E k \in answerTimeouts : AnswerTimeout(k)

\* Uploads of the creator's chunks of every size, and the merges that
\* list them.
NextIngest ==
    \/ \E q \in Reqs, b \in SizedBodies :
          uploadChunk(q, b.roomId, b.userId, b.kk, b.key, b.size)
    \/ \E q \in Reqs, b \in SizedBodies, t \in Stamps :
          uploadChunkAtomic(q, b.roomId, b.userId, b.kk, b.key, t, b.size)
    \/ \E q \in Reqs : UpOpen(q)
    \/ \E q \in Reqs : UpWrite(q)
    \/ \E q \in Reqs : UpRename(q)
    \/ \E q \in Reqs : mergeMeetingRecording(q)
    \/ \E q \in Reqs, ok \in BOOLEAN : Concat(q, ok)
    \/ \E q \in Reqs, ok \in BOOLEAN : MergeEnd(q, ok)
    \/ \E q \in Reqs : mergeRecording(q)
    \/ \E q \in Reqs, ok \in BOOLEAN : WorkerMergeRecordingEnd(q, ok)

\* Downloads of the final recording, with and without a Range header,
\* and the merges that write it.
NextDownload ==
    \/ \E q \in Reqs : mergeMeetingRecording(q)
    \/ \E q \in Reqs, ok \in BOOLEAN : Concat(q, ok)
    \/ \E q \in Reqs, ok \in BOOLEAN : MergeEnd(q, ok)
    \/ \E q \in Reqs : mergeRecording(q)
    \/ \E q \in Reqs, ok \in BOOLEAN : WorkerMergeRecordingEnd(q, ok)
    \/ \E q \in Reqs : downloadMeetingRecording(q)
    \/ \E q \in Reqs, h \in RangeHeaders : downloadRange(q, h)

Next == NextPresence \/ NextControl \/ NextEnd \/ NextMerge \/ NextRelay

Spec == Init /\ [][Next]_vars

\* The sub-systems taken one at a time.  A server without recordings on
\* disk serves the presence and end-of-meeting handlers; the recording
\* control and the merge are those of revision 1.
InitPresence == Init /\ endRev = 1 /\ upRev = 1 /\ userDirs = {}
InitControl ==
    /\ Init /\ build = 1 /\ endRev = 1 /\ upRev = 1
    /\ userDirs # {} => disk = InitialChunk(0)
InitEnd == Init /\ upRev = 1 /\ userDirs = {}
InitMerge == Init /\ build = 1 /\ endRev = 1
InitDownload == InitMerge /\ upRev = 1 /\ userDirs # {}
InitUpload == Init /\ build = 1 /\ endRev = 1 /\ userDirs = {}
InitRelay == Init /\ endRev = 1 /\ upRev = 1 /\ userDirs = {}

\* Revision 2 after join-room {r1, A} on s1 and join-room {r1, B} on s2
\* have been handled; the events are counted from here on.
InitAnswer ==
    /\ build = 2 /\ endRev = 1 /\ upRev = 1
    /\ meetings = [r \in {Room} |->
                     [exists |-> TRUE, host |-> Creator,
                      participants |-> <<Participant("A", "host", 1),
                                         Participant("B", "participant", 2)>>,
                      isActive |-> TRUE, v |-> 2]]
    /\ clock = 3
    /\ userSocketMap = [u \in Users |-> IF u = "A" THEN "s1" ELSE "s2"]
    /\ socketUserMap = [s \in Sockets |->
                          [userId |-> IF s = "s1" THEN "A" ELSE "B",
                           roomId |-> Room]]
    /\ connected = Sockets
    /\ inRoom = Sockets
    /\ task = [s \in Sockets |-> Idle]
    /\ timers = [k \in {"stop", "end"} |-> 0]
    /\ merges = [p \in {"requested", "running", "detached", "ok", "failed"}
                    |-> 0]
    /\ cleanups = <<>>
    /\ mergeLocks = {}
    /\ workerLocks = {}
    /\ httpReq = [q \in Reqs |-> HttpIdle]
    /\ userDirs = {}
    /\ roomDir = FALSE
    /\ disk = NoFiles
    /\ finalRec = "absent"
    /\ out = {}
    /\ lastPU = <<"A", "B">>
    /\ lastEv = [u \in Users |-> "join"]
    /\ nEvents = 0
    /\ nReqs = 0
    /\ answerTimeouts = {}
    /\ ended = {}
    /\ endMembers = <<>>
    /\ mergeCalls = 0
    /\ lookup = NoLookup
    /\ invalidJoins = 0

SpecPresence == InitPresence /\ [][NextPresence]_vars
SpecControl == InitControl /\ [][NextControl]_vars
\* requestMerge settles within its timeout, and the continuation of
\* triggerMergeForRoom runs once it has.
SpecControlFair ==
    /\ SpecControl
    /\ WF_vars(\E ph \in {"requested", "running"} : RequestTimeout(ph))
    /\ WF_vars(\E ok \in BOOLEAN : MergeOutcome(ok))
SpecEnd == InitEnd /\ [][NextEnd]_vars
SpecEndMerge == InitControl /\ [][NextEndMerge]_vars
SpecMerge == InitMerge /\ [][NextMerge]_vars
SpecUpload == InitUpload /\ [][NextUpload]_vars
SpecDownload == InitDownload /\ [][NextDownload]_vars
SpecIngest == InitMerge /\ [][NextIngest]_vars
SpecRelay == InitRelay /\ [][NextRelay]_vars
SpecAnswer == InitAnswer /\ [][NextAnswer]_vars
====
